---------------------------- MODULE Spec2Model ----------------------------
(***************************************************************************)
(* A model of streamlit_app.py, the FINSA quotation extractor: the field   *)
(* extractors (pure functions of the document text), the record assembler  *)
(* parse_pdf and the batch loop behind the "Extract to CSV" button.        *)
(*                                                                         *)
(* A Python str is modelled as a sequence of one-character strings, so     *)
(* that every regular expression of the source is an operator over the     *)
(* characters it reads.  Positions are 1-based; a "match end" is the index *)
(* of the last character matched, and 0 stands for "no match".             *)
(***************************************************************************)
EXTENDS Integers, Sequences, FiniteSets, TLC

VARIABLES
    pc,            \* position of the running handler or call
    files,         \* the uploaded files, in upload order
    mapping_cols,  \* the output schema (ordered column names)
    idx,           \* number of files the batch loop has visited
    rows,          \* the batch loop's result rows
    errors,        \* the batch loop's reported messages
    arg,           \* argument of the function under call
    ret            \* its return value

vars == <<pc, files, mapping_cols, idx, rows, errors, arg, ret>>

-----------------------------------------------------------------------------
(* Characters and character classes of Python's re (Unicode str patterns). *)

LowerAZ == <<"a","b","c","d","e","f","g","h","i","j","k","l","m",
             "n","o","p","q","r","s","t","u","v","w","x","y","z">>
UpperAZ == <<"A","B","C","D","E","F","G","H","I","J","K","L","M",
             "N","O","P","Q","R","S","T","U","V","W","X","Y","Z">>
LowerAcc == <<"á","é","í","ó","ú","ñ">>
UpperAcc == <<"Á","É","Í","Ó","Ú","Ñ">>

Range(f) == {f[i] : i \in DOMAIN f}

DigitSet == {"0","1","2","3","4","5","6","7","8","9"}
LowerSet == Range(LowerAZ) \cup Range(LowerAcc)
UpperSet == Range(UpperAZ) \cup Range(UpperAcc)
SpaceSet == {" ", "\t", "\n", "\r", "\f"}

IsDigit(c) == c \in DigitSet                             \* \d
IsAlpha(c) == c \in LowerSet \/ c \in UpperSet
IsWord(c)  == IsAlpha(c) \/ IsDigit(c) \/ c = "_"        \* \w
IsSpace(c) == c \in SpaceSet                             \* \s
IsAZ(c)    == c \in Range(UpperAZ)                       \* [A-Z]
\* the class [A-Za-zÁÉÍÓÚáéíóúÑñ] that the name and company extractors use
IsNameLetter(c) == IsAlpha(c)

LowerMap == [c \in UpperSet |->
               IF c \in Range(UpperAZ)
               THEN LowerAZ[CHOOSE i \in 1..26 : UpperAZ[i] = c]
               ELSE LowerAcc[CHOOSE i \in 1..6 : UpperAcc[i] = c]]
UpperMap == [c \in LowerSet |->
               IF c \in Range(LowerAZ)
               THEN UpperAZ[CHOOSE i \in 1..26 : LowerAZ[i] = c]
               ELSE UpperAcc[CHOOSE i \in 1..6 : LowerAcc[i] = c]]
Lower(c) == IF c \in UpperSet THEN LowerMap[c] ELSE c
Upper(c) == IF c \in LowerSet THEN UpperMap[c] ELSE c

-----------------------------------------------------------------------------
(* str helpers.                                                            *)

Min(a, b) == IF a < b THEN a ELSE b
Max(a, b) == IF a > b THEN a ELSE b

\* the least and the greatest member of a set of positions, 0 when empty
First(ps) == IF ps = {} THEN 0 ELSE CHOOSE i \in ps : \A j \in ps : i <= j
Last(ps)  == IF ps = {} THEN 0 ELSE CHOOSE i \in ps : \A j \in ps : i >= j

Take(seq, n) == SubSeq(seq, 1, Min(n, Len(seq)))      \* seq[:n]
Tail0(s, i) == SubSeq(s, i, Len(s))          \* s[i-1:]
Has(s, c)   == \E i \in 1..Len(s) : s[i] = c \* c in s

\* s.rfind(c): the last index of c, 0 when absent
RFind(s, c) == Last({i \in 1..Len(s) : s[i] = c})

\* s.replace(c, d) for single characters; d = "" deletes
RECURSIVE ReplaceChar(_, _, _)
ReplaceChar(s, c, d) ==
    IF s = <<>> THEN <<>>
    ELSE (IF s[1] # c THEN <<s[1]>> ELSE IF d = "" THEN <<>> ELSE <<d>>)
         \o ReplaceChar(Tail(s), c, d)

\* s.strip()
Strip(s) ==
    IF \A i \in 1..Len(s) : IsSpace(s[i]) THEN <<>>
    ELSE SubSeq(s, First({i \in 1..Len(s) : ~IsSpace(s[i])}),
                   Last({i \in 1..Len(s) : ~IsSpace(s[i])}))

IsBlank(s) == \A i \in 1..Len(s) : IsSpace(s[i])         \* not s.strip()

\* the literal kw matches at position i (kw in lower case when ci)
LitAt(s, i, kw, ci) ==
    /\ i >= 1
    /\ i + Len(kw) - 1 <= Len(s)
    /\ \A k \in 1..Len(kw) : (IF ci THEN Lower(s[i+k-1]) ELSE s[i+k-1]) = kw[k]

\* first position >= from where the literal matches, 0 when none
FindLit(s, kw, from, ci) ==
    First({i \in from..(Len(s) - Len(kw) + 1) : LitAt(s, i, kw, ci)})

Contains(s, kw, ci) == \E i \in 1..Len(s) : LitAt(s, i, kw, ci)

\* \b before position i (between s[i-1] and s[i])
WordBoundary(s, i) ==
    (i - 1 >= 1 /\ i - 1 <= Len(s) /\ IsWord(s[i-1]))
        # (i >= 1 /\ i <= Len(s) /\ IsWord(s[i]))

\* str.splitlines() over "\n": the lines of s from position i on
RECURSIVE LinesFrom(_, _, _)
LinesFrom(s, i, n) ==
    IF i > Len(s) THEN <<>>
    ELSE IF n = 0 THEN <<Tail0(s, i)>>
    ELSE <<SubSeq(s, i, n-1)>> \o LinesFrom(s, n+1, FindLit(s, <<"\n">>, n+1, FALSE))

splitlines(s) == LinesFrom(s, 1, FindLit(s, <<"\n">>, 1, FALSE))

\* sep.join(parts)
RECURSIVE Join(_, _)
Join(parts, sep) ==
    IF parts = <<>> THEN <<>>
    ELSE IF Len(parts) = 1 THEN parts[1]
    ELSE parts[1] \o sep \o Join(Tail(parts), sep)

\* [ln for ln in raw.splitlines() if ln.strip()]
NonBlankLines(raw) == SelectSeq(splitlines(raw), LAMBDA ln : ~IsBlank(ln))

-----------------------------------------------------------------------------
(* MONEY_RX = \b\d{1,3}(?:[.,]\d{3})*(?:[.,]\d{2})\b                        *)

IsSep(c) == c = "." \/ c = ","

DigitsAt(s, i, n) == i + n - 1 <= Len(s) /\ \A k \in 0..(n-1) : IsDigit(s[i+k])

\* (?:[.,]\d{3}) at p
MoneyGroupAt(s, p) == p <= Len(s) /\ IsSep(s[p]) /\ DigitsAt(s, p+1, 3)

\* (?:[.,]\d{2})\b at p
MoneyTailAt(s, p) ==
    p <= Len(s) /\ IsSep(s[p]) /\ DigitsAt(s, p+1, 2) /\ WordBoundary(s, p+3)

\* how many groups (?:[.,]\d{3}) follow one another from p
RECURSIVE MoneyGroups(_, _)
MoneyGroups(s, p) == IF MoneyGroupAt(s, p) THEN 1 + MoneyGroups(s, p+4) ELSE 0

\* the greedy star backs off one group at a time until the tail matches
RECURSIVE MoneyBackoff(_, _, _)
MoneyBackoff(s, p, k) ==
    IF MoneyTailAt(s, p + 4*k) THEN p + 4*k + 2
    ELSE IF k = 0 THEN 0
    ELSE MoneyBackoff(s, p, k-1)

\* end of the match that starts with d leading digits at i, 0 when none
MoneyTry(s, i, d) ==
    IF DigitsAt(s, i, d) THEN MoneyBackoff(s, i+d, MoneyGroups(s, i+d)) ELSE 0

\* a, or b when a is "no match"
OrElse(a, b) == IF a # 0 THEN a ELSE b

\* end of the MONEY_RX match starting at i (greedy \d{1,3}: 3, then 2, then
\* 1 leading digits), 0 when none
MoneyMatchEnd(s, i) ==
    IF ~WordBoundary(s, i) THEN 0
    ELSE OrElse(MoneyTry(s, i, 3), OrElse(MoneyTry(s, i, 2), MoneyTry(s, i, 1)))

\* MONEY_RX.finditer(s): the spans <<start, end>> of the non-overlapping
\* matches, scanning from position i, where e is the end of the match at i
RECURSIVE MoneySpans(_, _, _)
MoneySpans(s, i, e) ==
    IF i > Len(s) THEN <<>>
    ELSE IF e = 0 THEN MoneySpans(s, i+1, MoneyMatchEnd(s, i+1))
    ELSE <<(<<i, e>>)>> \o MoneySpans(s, e+1, MoneyMatchEnd(s, e+1))

MoneyFinditer(s, i) == MoneySpans(s, i, MoneyMatchEnd(s, i))

\* the texts of spans of s
Texts(s, sp) == [k \in 1..Len(sp) |-> SubSeq(s, sp[k][1], sp[k][2])]

\* MONEY_RX.findall(s)
MoneyFindall(s) == Texts(s, MoneyFinditer(s, 1))

-----------------------------------------------------------------------------
(* Totals: find_total_third_money_line.                                    *)

WINDOW_LINES == 20

kwSub      == <<"s","u","b">>
kwTotal    == <<"t","o","t","a","l">>
kwDe       == <<"d","e">>
kwArt      == <<"a","r","t">>

\* \s* from p: the position after the longest run of whitespace
RECURSIVE SkipSpaces(_, _)
SkipSpaces(s, p) == IF p <= Len(s) /\ IsSpace(s[p]) THEN SkipSpaces(s, p+1) ELSE p

\* re.search(r"(Sub[\s-]?Total|Subtotal|Sub Total)", ln, re.I)
SubtotalAt(s, i) ==
    /\ LitAt(s, i, kwSub, TRUE)
    /\ \/ LitAt(s, i+3, kwTotal, TRUE)
       \/ /\ i + 3 <= Len(s)
          /\ IsSpace(s[i+3]) \/ s[i+3] = "-"
          /\ LitAt(s, i+4, kwTotal, TRUE)
HasSubtotal(ln) == \E i \in 1..Len(ln) : SubtotalAt(ln, i)

\* re.search(r"\bTotal\b", ln, re.I)
HasTotalWord(ln) ==
    \E i \in 1..Len(ln) :
        LitAt(ln, i, kwTotal, TRUE) /\ WordBoundary(ln, i) /\ WordBoundary(ln, i+5)

\* de\s*Art from p, ignoring case
DeArtAt(ln, p) == LitAt(ln, p, kwDe, TRUE) /\ LitAt(ln, SkipSpaces(ln, p+2), kwArt, TRUE)

\* re.search(r"Total\s*de\s*Art", ln, re.I)
HasTotalDeArt(ln) ==
    \E i \in 1..Len(ln) :
        LitAt(ln, i, kwTotal, TRUE) /\ DeArtAt(ln, SkipSpaces(ln, i+5))

\* first index of a line satisfying P, 0 when none
FirstLine(lines, P(_)) == First({i \in 1..Len(lines) : P(lines[i])})

\* lines 159-161: the first standalone total
IsTotalLine(ln) == HasTotalWord(ln) /\ ~HasTotalDeArt(ln)

\* lines 154-161: the subtotal anchor, else the first standalone total
TotalsAnchor(lines) ==
    IF \E i \in 1..Len(lines) : HasSubtotal(lines[i])
    THEN FirstLine(lines, HasSubtotal)
    ELSE FirstLine(lines, IsTotalLine)

\* lines 168-174, for the literal without its spaces
NormalizeSeparators(val) ==
    IF Has(val, ",") /\ Has(val, ".")
    THEN IF RFind(val, ",") > RFind(val, ".")
         THEN ReplaceChar(ReplaceChar(val, ".", ""), ",", ".")
         ELSE ReplaceChar(val, ",", "")
    ELSE IF Has(val, ",") /\ ~Has(val, ".")
    THEN ReplaceChar(ReplaceChar(val, ".", ""), ",", ".")
    ELSE val

\* lines 167-174: one matched literal to its normalized form
NormalizeMoney(m) == NormalizeSeparators(ReplaceChar(m, " ", ""))

HasDot(v) == Has(v, ".")

\* lines 165-175 for one line's matched literals
NormalizedOf(ms) ==
    SelectSeq([k \in 1..Len(ms) |-> NormalizeMoney(ms[k])], HasDot)

\* lines 164-175: the normalized tokens of the window, in document order
RECURSIVE WindowMonies(_)
WindowMonies(window) ==
    IF window = <<>> THEN <<>>
    ELSE NormalizedOf(MoneyFindall(window[1])) \o WindowMonies(Tail(window))

\* lines 176-177 without the rule of the third token: always the last one
ThirdOrLast_last(monies) ==
    IF monies # <<>> THEN monies[Len(monies)] ELSE <<>>

ThirdOrLast(monies) ==
    IF Len(monies) >= 3 THEN monies[3]
    ELSE IF monies # <<>> THEN monies[Len(monies)]
    ELSE <<>>

\* lines 153 and 163: the stripped non-blank lines
StrippedNonBlank(all) ==
    SelectSeq([k \in 1..Len(all) |-> Strip(all[k])], LAMBDA ln : ln # <<>>)

\* lines 162-178, for the anchor line start
TotalFrom(lines, start) ==
    IF start = 0 THEN <<>>
    ELSE ThirdOrLast(WindowMonies(
             SubSeq(lines, start, Min(Len(lines), start + WINDOW_LINES - 1))))

\* lines 153-178 over the stripped non-blank lines
TotalOfLines(lines) == TotalFrom(lines, TotalsAnchor(lines))

find_total_third_money_line(raw_text) ==
    IF raw_text = <<>> THEN <<>>
    ELSE TotalOfLines(StrippedNonBlank(splitlines(raw_text)))

-----------------------------------------------------------------------------

(* Quantity parsing: split_into_item_rows, infer_quantity_from_row,        *)
(* sum_quantities_advanced.                                                *)
(*                                                                         *)
(* A float read from a decimal literal is modelled by the exact decimal    *)
(* <<m, e>> = m / 10^e.  The only place where the binary value can differ  *)
(* observably from the decimal one is the rounding of an exact decimal tie *)
(* by the "%.2f" format; that direction is the parameter tieUp, which the  *)
(* callers choose nondeterministically.                                    *)

None == <<>>

QTY_LIMIT == 100000

RECURSIVE Pow10(_)
Pow10(n) == IF n <= 0 THEN 1 ELSE 10 * Pow10(n - 1)

DigitVal(c) == CHOOSE d \in 0..9 : <<"0","1","2","3","4","5","6","7","8","9">>[d+1] = c

\* int(s) of a digit string
RECURSIVE ParseInt(_)
ParseInt(s) ==
    IF s = <<>> THEN 0
    ELSE 10 * ParseInt(SubSeq(s, 1, Len(s) - 1)) + DigitVal(s[Len(s)])

\* float(tok) of a literal \d+(\.\d+)? whose '.' is at dot (0: none)
FloatAt(tok, dot) ==
    IF dot = 0 THEN <<ParseInt(tok), 0>>
    ELSE <<ParseInt(SubSeq(tok, 1, dot-1) \o Tail0(tok, dot+1)), Len(tok) - dot>>

ParseFloat(tok) == FloatAt(tok, RFind(tok, "."))

\* a + b, at the scale e
AddAt(a, b, e) == <<a[1] * Pow10(e - a[2]) + b[1] * Pow10(e - b[2]), e>>

DecAdd(a, b) == AddAt(a, b, Max(a[2], b[2]))

DecLess(a, b) == a[1] * Pow10(b[2]) < b[1] * Pow10(a[2])

\* end of the longest run of digits starting at i (i-1 when s[i] is no digit)
RECURSIVE DigitRunEnd(_, _)
DigitRunEnd(s, i) ==
    IF i <= Len(s) /\ IsDigit(s[i]) THEN DigitRunEnd(s, i+1) ELSE i - 1

\* (?:\.\d+)? taken greedily after the digits that end at a
FractionEnd(s, i, a) ==
    IF a < i THEN 0
    ELSE IF a + 2 <= Len(s) /\ s[a+1] = "." /\ IsDigit(s[a+2])
    THEN DigitRunEnd(s, a+2)
    ELSE a

\* end of \d+(?:\.\d+)? taken greedily from i, 0 when s[i] is no digit
NumberEnd(s, i) == FractionEnd(s, i, DigitRunEnd(s, i))

UNIT_TOKENS == << <<"p","z","a">>, <<"k","i","t">>, <<"p","z","a","s">>,
                  <<"s","e","t">>, <<"u","n","d">>, <<"p","c","s">> >>

\* (?:PZA|KIT|PZAS|SET|UND|PCS)\b at p, ignoring case
UnitAt(s, p) ==
    \E u \in 1..Len(UNIT_TOKENS) :
        LitAt(s, p, UNIT_TOKENS[u], TRUE) /\ WordBoundary(s, p + Len(UNIT_TOKENS[u]))

\* \s+UNIT\b after a number that ends at b
UnitAfter(s, i, b) ==
    IF WordBoundary(s, i) /\ b # 0
       /\ b + 1 <= Len(s) /\ IsSpace(s[b+1]) /\ UnitAt(s, SkipSpaces(s, b+1))
    THEN b ELSE 0

\* UNIT_NEAR_QTY_RX = \b(\d+(?:\.\d+)?)\s+UNIT\b matches at i: the end of
\* group 1, 0 when there is no match at i.  Neither \d+ can give a digit
\* back (what follows would have to be a '.', a space or a unit), so the
\* number is the greedy one.
UnitQtyEnd(s, i) == UnitAfter(s, i, NumberEnd(s, i))

\* \b after the number ending at b, else after its integer part ending at a
BoundaryEnd(s, i, a, b) ==
    IF ~WordBoundary(s, i) \/ a < i THEN 0
    ELSE IF WordBoundary(s, b+1) THEN b
    ELSE IF WordBoundary(s, a+1) THEN a
    ELSE 0

\* INT_OR_DEC_RX = \b\d+(?:\.\d+)?\b matches at i: its end, 0 when none.
\* The fraction is dropped when no \b follows it.
IntOrDecEnd(s, i) == BoundaryEnd(s, i, DigitRunEnd(s, i), NumberEnd(s, i))

\* INT_OR_DEC_RX.finditer(s) from position i, where e is the end of the
\* match at i: the matched literals
RECURSIVE IntOrDecFrom(_, _, _)
IntOrDecFrom(s, i, e) ==
    IF i > Len(s) THEN <<>>
    ELSE IF e = 0 THEN IntOrDecFrom(s, i+1, IntOrDecEnd(s, i+1))
    ELSE <<SubSeq(s, i, e)>> \o IntOrDecFrom(s, e+1, IntOrDecEnd(s, e+1))

IntOrDecFindall(s, i) == IntOrDecFrom(s, i, IntOrDecEnd(s, i))

\* lines 186-190: the loop from raw line k on, with rows and cur so far;
\* the result is <<rows, cur>>
RECURSIVE SplitLoop(_, _, _, _)
SplitLoop(raw_lines, k, item_rows, cur) ==
    IF k > Len(raw_lines) THEN <<item_rows, cur>>
    ELSE IF Len(MoneyFindall(raw_lines[k])) >= 2
    THEN SplitLoop(raw_lines, k+1,
                   Append(item_rows, Join(Append(cur, raw_lines[k]), <<" ">>)), <<>>)
    ELSE SplitLoop(raw_lines, k+1, item_rows, Append(cur, raw_lines[k]))

\* lines 191-194 without the test of rows: what is left in cur is a row of
\* its own
SplitFlush_own(item_rows, cur) ==
    IF cur # <<>> THEN Append(item_rows, Join(cur, <<" ">>)) ELSE item_rows

\* lines 191-194: what is left in cur joins the last row
SplitFlush(item_rows, cur) ==
    IF cur # <<>>
    THEN IF item_rows # <<>>
         THEN [item_rows EXCEPT ![Len(item_rows)] = @ \o <<" ">> \o Join(cur, <<" ">>)]
         ELSE <<Join(cur, <<" ">>)>>
    ELSE item_rows

SplitEnd(st) == SplitFlush(st[1], st[2])

split_into_item_rows(block_text) ==
    IF block_text = <<>> THEN <<>>
    ELSE SplitEnd(SplitLoop(NonBlankLines(block_text), 1, <<>>, <<>>))

BelowLimit(v) == DecLess(v, <<QTY_LIMIT, 0>>)

\* line 213 with candidates[0]: the first literal that is a number under
\* the limit
LastCandidate_first(toks) ==
    IF \E k \in 1..Len(toks) : BelowLimit(ParseFloat(toks[k]))
    THEN ParseFloat(toks[First({k \in 1..Len(toks) : BelowLimit(ParseFloat(toks[k]))})])
    ELSE None

\* lines 205-214: the last literal before the first amount that is a
\* number under the limit
LastCandidate(toks) ==
    IF \E k \in 1..Len(toks) : BelowLimit(ParseFloat(toks[k]))
    THEN ParseFloat(toks[Last({k \in 1..Len(toks) : BelowLimit(ParseFloat(toks[k]))})])
    ELSE None

\* lines 202-214
QuantityBeforeMoney(row_text, money_spans) ==
    IF money_spans = <<>> THEN None
    ELSE LastCandidate(IntOrDecFindall(SubSeq(row_text, 1, money_spans[1][1] - 1), 1))

\* lines 198-201, for the first position i of a UNIT_NEAR_QTY_RX match
QuantityAtUnit(row_text, i) == ParseFloat(SubSeq(row_text, i, UnitQtyEnd(row_text, i)))

infer_quantity_from_row(row_text) ==
    IF row_text = <<>> THEN None
    ELSE IF \E i \in 1..Len(row_text) : UnitQtyEnd(row_text, i) # 0
    THEN QuantityAtUnit(row_text,
                        First({i \in 1..Len(row_text) : UnitQtyEnd(row_text, i) # 0}))
    ELSE QuantityBeforeMoney(row_text, MoneyFinditer(row_text, 1))

Digits == <<"0","1","2","3","4","5","6","7","8","9">>

RECURSIVE IntToStr(_)
IntToStr(n) ==
    IF n < 10 THEN <<Digits[n+1]>>
    ELSE IntToStr(n \div 10) \o <<Digits[(n % 10) + 1]>>

\* m / d rounded to the nearest integer, an exact tie up or down
RoundDiv(m, d, tieUp) ==
    IF 2 * (m % d) < d THEN m \div d
    ELSE IF 2 * (m % d) > d THEN (m \div d) + 1
    ELSE IF tieUp THEN (m \div d) + 1 ELSE m \div d

\* the hundredths h as "%.2f" prints them
Hundredths(h) ==
    IntToStr(h \div 100) \o <<".">> \o <<Digits[((h % 100) \div 10) + 1]>>
        \o <<Digits[(h % 10) + 1]>>

\* f"{total:.2f}"
Format2f(total, tieUp) ==
    Hundredths(IF total[2] <= 2 THEN total[1] * Pow10(2 - total[2])
               ELSE RoundDiv(total[1], Pow10(total[2] - 2), tieUp))

\* s.rstrip(c)
RECURSIVE RStripChar(_, _)
RStripChar(s, c) ==
    IF s # <<>> /\ s[Len(s)] = c THEN RStripChar(SubSeq(s, 1, Len(s)-1), c) ELSE s

IsQuantity(q) == q # None

\* the quantities of the rows that yield one, in row order
RowQuantities(item_rows) ==
    SelectSeq([k \in 1..Len(item_rows) |-> infer_quantity_from_row(item_rows[k])],
              IsQuantity)

\* line 222 with total = q in place of total += q
RECURSIVE SumOf_overwrite(_)
SumOf_overwrite(qs) == IF qs = <<>> THEN <<0, 0>> ELSE qs[Len(qs)]

\* total += q over the quantities
RECURSIVE SumOf(_)
SumOf(qs) == IF qs = <<>> THEN <<0, 0>> ELSE DecAdd(SumOf(SubSeq(qs, 1, Len(qs) - 1)), qs[Len(qs)])

\* line 223
RenderQuantity(qs, tieUp) ==
    IF qs # <<>>
    THEN RStripChar(RStripChar(Format2f(SumOf(qs), tieUp), "0"), ".")
    ELSE <<>>

sum_quantities_advanced(block_text, tieUp) ==
    RenderQuantity(RowQuantities(split_into_item_rows(block_text)), tieUp)

-----------------------------------------------------------------------------

(* Helpers: phone digits and name cleaning.                                *)

\* re.sub(r"\D", "", s or "")
_digits_only(s) == SelectSeq(s, IsDigit)

kwExt       == <<"e","x","t">>
kwExtension == { <<"e","x","t","e","n","s","i","o","n">>,
                 <<"e","x","t","e","n","s","i","ó","n">> }

\* \bEXT\.?\b at i, ignoring case
ExtAt(s, i) ==
    /\ WordBoundary(s, i)
    /\ LitAt(s, i, kwExt, TRUE)
    /\ \/ i + 3 <= Len(s) /\ s[i+3] = "." /\ WordBoundary(s, i+4)
       \/ WordBoundary(s, i+3)

\* \bEXTENSI[oó]N\b at i, ignoring case
ExtensionAt(s, i) ==
    /\ WordBoundary(s, i)
    /\ \E kw \in kwExtension : LitAt(s, i, kw, TRUE)
    /\ WordBoundary(s, i+9)

\* the text before position p, all of it when p is "no match"
Before(s, p) == IF p = 0 THEN s ELSE SubSeq(s, 1, p - 1)

\* re.split(rx, s)[0]: the text before the first match of At
BeforeFirst(s, At(_, _)) == Before(s, First({i \in 1..Len(s) : At(s, i)}))

_fmt_phone_mx(raw) ==
    IF raw = <<>> THEN <<>>
    ELSE _digits_only(BeforeFirst(BeforeFirst(raw, ExtAt), ExtensionAt))

kwVisita == <<"v","i","s","i","t","a">>
kwWww    == <<"w","w","w">>
kwHttp   == <<"h","t","t","p">>
kwHttps  == <<"h","t","t","p","s">>
kwDotCom == <<".","c","o","m">>

\* re.search(r"(visita|www|http|https|\.com)", s, re.I)
LooksLikeUrl(s) ==
    \E kw \in {kwVisita, kwWww, kwHttp, kwHttps, kwDotCom} : Contains(s, kw, TRUE)

\* re.sub(r"\([^)]*\)", " ", s), where open is the first "(" of s and shut
\* the first ")" after it
RECURSIVE DropParens(_)
ParensCut(s, open, shut) ==
    IF open = 0 \/ shut = 0 THEN s
    ELSE SubSeq(s, 1, open - 1) \o <<" ">> \o DropParens(Tail0(s, shut + 1))

ParensFrom(s, open) ==
    ParensCut(s, open, IF open = 0 THEN 0 ELSE FindLit(s, <<")">>, open + 1, FALSE))

DropParens(s) == ParensFrom(s, FindLit(s, <<"(">>, 1, FALSE))

\* the class [\d\W_]
IsJunk(c) == IsDigit(c) \/ ~IsWord(c) \/ c = "_"

\* the text after position p, all of it when p is "no match"
After0(s, p) == IF p = 0 THEN s ELSE Tail0(s, p + 1)

\* re.sub(r"^[\d\W_]+\s+", "", s): the greedy class run gives characters
\* back until white space follows it, so the match ends at the last white
\* space of the leading run (not counting its first character)
DropLeadingJunk(s) ==
    After0(s, Last({i \in 2..Len(s) : IsSpace(s[i]) /\ \A j \in 1..i : IsJunk(s[j])}))

\* re.sub(r"\s+[\d\W_]+$", "", s): the leftmost white space from which
\* everything to the end is in the class, with at least one character after
DropTrailingJunk(s) ==
    Before(s, First({i \in 1..(Len(s) - 1) :
                        IsSpace(s[i]) /\ \A j \in i..Len(s) : IsJunk(s[j])}))

\* the end of the run of non-white-space characters that starts at p
RECURSIVE WordEnd(_, _)
WordEnd(s, p) == IF p + 1 <= Len(s) /\ ~IsSpace(s[p+1]) THEN WordEnd(s, p+1) ELSE p

\* the words of s from position p on, s[p] being no white space
RECURSIVE WordsFrom(_, _)
WordsFrom(s, p) ==
    IF p > Len(s) THEN <<>>
    ELSE <<SubSeq(s, p, WordEnd(s, p))>>
         \o WordsFrom(s, SkipSpaces(s, WordEnd(s, p) + 1))

\* s.split(): the maximal runs of non-white-space characters
Split(s) == WordsFrom(s, SkipSpaces(s, 1))

\* re.sub(r"\s+", " ", s).strip()
CollapseSpaces(s) == Join(Split(s), <<" ">>)

\* lines 58-66, for the stripped text
CleanStripped(s) ==
    IF s = <<>> THEN <<>>
    ELSE IF LooksLikeUrl(s) THEN <<>>
    ELSE CollapseSpaces(DropTrailingJunk(DropLeadingJunk(DropParens(s))))

_clean_inline_name(s0) == CleanStripped(Strip(s0))

NAME_BLACKLIST ==
    {kwVisita, kwWww, kwHttp, kwHttps, kwDotCom,
     <<"o","b","s","e","r","v","a","c","i","o","n","e","s">>,
     <<"c","o","n","d","i","c","i","o","n","e","s">>,
     <<"t","o","t","a","l">>, <<"s","u","b","t","o","t","a","l">>,
     <<"i","v","a">>}

HasLetter(t) == \E i \in 1..Len(t) : IsNameLetter(t[i])

\* [t for t in s.split() if re.search(r"[A-Za-z...]", t)]
LetterTokens(s) == SelectSeq(Split(s), HasLetter)

\* line 78
TokenCountOk(toks) == 1 <= Len(toks) /\ Len(toks) <= 6

_looks_like_name(s) ==
    IF s = <<>> THEN FALSE
    ELSE IF \E kw \in NAME_BLACKLIST : Contains(s, kw, TRUE) THEN FALSE
    ELSE TokenCountOk(LetterTokens(s))

\* \s+ after the digits that end at a
CodeCut(s, a) ==
    IF a >= 1 /\ a + 1 <= Len(s) /\ IsSpace(s[a+1])
    THEN Tail0(s, SkipSpaces(s, a+1))
    ELSE s

\* re.sub(r"^\d+\s+", "", text)
DropLeadingCode(s) == CodeCut(s, DigitRunEnd(s, 1))

\* the class [|•·,;:]; the bullet U+2022 is outside what a TLA+ string can
\* hold and so outside every modelled text
IsPhraseSep(c) == c \in {"|", "·", ",", ";", ":"}

\* the position after the run of separators that starts at a
RECURSIVE SkipSeps(_, _)
SkipSeps(s, p) == IF p <= Len(s) /\ IsPhraseSep(s[p]) THEN SkipSeps(s, p+1) ELSE p

\* re.split(r"[|..,;:]+", text), where a is the first separator of s
RECURSIVE SplitPhrases(_)
PhrasesCut(s, a) ==
    IF a = 0 THEN <<s>>
    ELSE <<SubSeq(s, 1, a - 1)>> \o SplitPhrases(Tail0(s, SkipSeps(s, a)))

SplitPhrases(s) == PhrasesCut(s, First({i \in 1..Len(s) : IsPhraseSep(s[i])}))

\* the sort key (tokens, length) of a candidate
NameKey(c) == <<Len(Split(c)), Len(c)>>
KeyGe(a, b) == a[1] > b[1] \/ (a[1] = b[1] /\ a[2] >= b[2])

\* candidates.sort(key=(tokens, length), reverse=True)[0]: the first
\* candidate, in list order, of the greatest key (the sort is stable)
BestCandidate(candidates) ==
    candidates[First({i \in 1..Len(candidates) :
                  \A j \in 1..Len(candidates) :
                      KeyGe(NameKey(candidates[i]), NameKey(candidates[j]))})]

\* lines 95-99
NameCandidates(parts) ==
    SelectSeq([k \in 1..Len(parts) |-> _clean_inline_name(parts[k])], _looks_like_name)

\* lines 105-108
LetterFallback(toks) == IF Len(toks) >= 1 THEN Join(toks, <<" ">>) ELSE <<>>

\* lines 100-108
BestOrFallback(candidates, text) ==
    IF candidates # <<>> THEN BestCandidate(candidates)
    ELSE LetterFallback(LetterTokens(text))

\* lines 92-108, for the text without its leading code
BestOf(text) == BestOrFallback(NameCandidates(SplitPhrases(text)), text)

\* lines 88-108, for the cleaned text
BestOfCleaned(text1) == IF text1 = <<>> THEN <<>> ELSE BestOf(DropLeadingCode(text1))

_best_name_from_text(text0) == BestOfCleaned(_clean_inline_name(text0))

\* lines 114-115
FirstAndRest(parts) ==
    IF parts = <<>> THEN << <<>>, <<>> >>
    ELSE << parts[1], Join(Tail(parts), <<" ">>) >>

_split_first_last(full0) == FirstAndRest(Split(full0))

-----------------------------------------------------------------------------

(* Label-value patterns.  After a label ending before position e the       *)
(* patterns of the source read  \s* X \s* (group)  where X is an optional  *)
(* or mandatory punctuation class.  Both \s* are greedy and give back one  *)
(* character at a time, X? prefers to match: the group starts at the       *)
(* first position, in that backtracking order, where Valid holds.          *)

WsRun(s, p) == SkipSpaces(s, p) - p

\* t is tried before u: longer first white space, then the punctuation
\* taken, then longer second white space
TryBefore(t, u) ==
    \/ t[1] > u[1]
    \/ t[1] = u[1] /\ t[2] > u[2]
    \/ t[1] = u[1] /\ t[2] = u[2] /\ t[3] >= u[3]

TryLength(t) == t[1] + t[2] + t[3]

FirstTry(e, tries) ==
    IF tries = {} THEN 0
    ELSE e + TryLength(CHOOSE t \in tries : \A u \in tries : TryBefore(t, u))

\* the start of the group, 0 when the pattern does not match from e
GroupStart(s, e, IsX(_), mandatory, Valid(_)) ==
    FirstTry(e, {t \in (0..WsRun(s, e)) \X {0, 1} \X (0..Len(s)) :
                    /\ t[2] = 1 => (e + t[1] <= Len(s) /\ IsX(s[e + t[1]]))
                    /\ mandatory => t[2] = 1
                    /\ t[3] <= WsRun(s, e + t[1] + t[2])
                    /\ Valid(e + t[1] + t[2] + t[3])})

IsColon(c)      == c = ":"
IsColonOrDot(c) == c = ":" \/ c = "."

\* end of the line that holds position q (the last position before "\n")
RECURSIVE LineEnd(_, _)
LineEnd(s, q) == IF q <= Len(s) /\ s[q] # "\n" THEN LineEnd(s, q+1) ELSE q - 1

\* ([^\n]+) can start at q
LineCharAt(s, q) == q >= 1 /\ q <= Len(s) /\ s[q] # "\n"

-----------------------------------------------------------------------------
(* extract_quote_number.                                                   *)

kwCotizacion == { <<"c","o","t","i","z","a","c","i","o","n">>,
                  <<"c","o","t","i","z","a","c","i","ó","n">> }
kwNumero     == { <<"n","u","m","e","r","o">>, <<"n","ú","m","e","r","o">> }
kwNumeroPlain == <<"n","u","m","e","r","o">>
kwNo         == <<"n","o">>
kwNDegree    == <<"n","°">>

\* HEADER_QUOTE_HINT = \bCotizaci[oó]n\b, ignoring case
HasQuoteHint(ln) ==
    \E i \in 1..Len(ln) : \E kw \in kwCotizacion :
        WordBoundary(ln, i) /\ LitAt(ln, i, kw, TRUE) /\ WordBoundary(ln, i + 10)

\* \b(\d{4,8})\b for the digits from i that end at a
DigitsWord(s, i, a) ==
    IF WordBoundary(s, i) /\ a - i + 1 >= 4 /\ a - i + 1 <= 8
       /\ WordBoundary(s, a + 1)
    THEN a ELSE 0

\* \b(\d{4,8})\b at i: the end of the number, 0 when none
QuoteDigitsEnd(s, i) == DigitsWord(s, i, DigitRunEnd(s, i))

\* re.findall(r"\b(\d{4,8})\b", s) from position i, where e is the end of
\* the match at i
RECURSIVE QuoteDigitsFrom(_, _, _)
QuoteDigitsFrom(s, i, e) ==
    IF i > Len(s) THEN <<>>
    ELSE IF e = 0 THEN QuoteDigitsFrom(s, i+1, QuoteDigitsEnd(s, i+1))
    ELSE <<SubSeq(s, i, e)>> \o QuoteDigitsFrom(s, e+1, QuoteDigitsEnd(s, e+1))

QuoteDigitsFindall(s, i) == QuoteDigitsFrom(s, i, QuoteDigitsEnd(s, i))

\* s.lstrip("0") or s
RECURSIVE LStripZeros(_)
LStripZeros(s) == IF s # <<>> /\ s[1] = "0" THEN LStripZeros(Tail(s)) ELSE s
StripZerosOr(s) == IF LStripZeros(s) # <<>> THEN LStripZeros(s) ELSE s

\* (?:\s+de\s+cotizaci[oó]n)? after position e-1: the end positions + 1
\* the optional part can leave the match at
DeCotizacionEnds(s, e, kws) ==
    {e} \cup
    {q + 10 : q \in {q \in 1..Len(s) : \E kw \in kws :
        /\ WsRun(s, e) >= 1
        /\ LitAt(s, SkipSpaces(s, e), kwDe, TRUE)
        /\ WsRun(s, SkipSpaces(s, e) + 2) >= 1
        /\ q = SkipSpaces(s, SkipSpaces(s, e) + 2)
        /\ LitAt(s, q, kw, TRUE)}}

\* the positions after the label of QNUM_RXS[0] when it starts at i:
\* \bN[uú]mero(...)? | Numero(...)? | No\.? | N°
QnumLabelEnds(s, i) ==
    (IF WordBoundary(s, i) /\ \E kw \in kwNumero : LitAt(s, i, kw, TRUE)
     THEN DeCotizacionEnds(s, i + 6, kwCotizacion) ELSE {})
    \cup
    (IF LitAt(s, i, kwNumeroPlain, TRUE)
     THEN DeCotizacionEnds(s, i + 6, { <<"c","o","t","i","z","a","c","i","o","n">> })
     ELSE {})
    \cup
    (IF LitAt(s, i, kwNo, TRUE)
     THEN {i + 2} \cup (IF i + 2 <= Len(s) /\ s[i+2] = "." THEN {i + 3} ELSE {})
     ELSE {})
    \cup
    (IF LitAt(s, i, kwNDegree, TRUE) THEN {i + 2} ELSE {})

\* the starts of group 1 of QNUM_RXS[0] for a label at i.  \s*:?\s*\n? is
\* white space with at most one colon in it, and the group must start on a
\* digit, so every label end leads to at most one start.
QnumStarts(s, i) ==
    {GroupStart(s, e, IsColon, FALSE, LAMBDA q : DigitsAt(s, q, 4)) :
         e \in QnumLabelEnds(s, i)} \ {0}

Qnum0At(s, i0) == IF i0 = 0 THEN 0 ELSE First(QnumStarts(s, i0))

\* QNUM_RXS[0].search(s): the start of group 1, 0 when there is no match
Qnum0Start(s) == Qnum0At(s, First({i \in 1..Len(s) : QnumStarts(s, i) # {}}))

\* (\d{4,8}) greedy from q
Upto8Digits(s, q) == SubSeq(s, q, Min(DigitRunEnd(s, q), q + 7))

ColonAt(s, c) == c <= Len(s) /\ s[c] = ":"

\* \s*\nN[uú]mero\s*: after the digits that end at a, the white space
\* ending before n
Qnum1Label(s, a, n) ==
    /\ n - 1 > a /\ s[n-1] = "\n"
    /\ \E kw \in kwNumero : LitAt(s, n, kw, TRUE)
    /\ ColonAt(s, SkipSpaces(s, n + 6))

Qnum1Digits(s, i, a) ==
    /\ IsDigit(s[i])
    /\ a - i + 1 >= 4 /\ a - i + 1 <= 8
    /\ Qnum1Label(s, a, SkipSpaces(s, a + 1))

\* QNUM_RXS[1] = (\d{4,8})\s*\nN[uú]mero\s*: matches at i
Qnum1At(s, i) == Qnum1Digits(s, i, DigitRunEnd(s, i))

Qnum1From(s, i0) == IF i0 = 0 THEN <<>> ELSE SubSeq(s, i0, DigitRunEnd(s, i0))

\* QNUM_RXS[1].search(s): group 1, or <<>>
Qnum1Group(s) == Qnum1From(s, First({i \in 1..Len(s) : Qnum1At(s, i)}))

TOP_LINES == 40
HINT_WINDOW == 6

\* line 231: " ".join(lines[idx:idx+6])
HintWindow(lines, i) ==
    Join(SubSeq(lines, i, Min(Len(lines), i + HINT_WINDOW - 1)), <<" ">>)

\* line 232
HintNumbers(lines, i) == QuoteDigitsFindall(HintWindow(lines, i), 1)

\* lines 230-233: line i has the hint and its window holds a number
IsHit(lines, i) == HasQuoteHint(lines[i]) /\ HintNumbers(lines, i) # <<>>

LastOf(nums) == nums[Len(nums)]

\* lines 240-242
QnumTop(top) == IF top # <<>> THEN StripZerosOr(top[1]) ELSE <<>>

\* lines 234-242, for group 1 of QNUM_RXS[1]
QnumByPattern1(lines, g1) ==
    IF g1 # <<>> THEN StripZerosOr(g1)
    ELSE QnumTop(QuoteDigitsFindall(Join(Take(lines, TOP_LINES), <<" ">>), 1))

\* lines 234-242, for the start of group 1 of QNUM_RXS[0]
QnumByPattern0(lines, raw_text, q0) ==
    IF q0 # 0 THEN StripZerosOr(Upto8Digits(raw_text, q0))
    ELSE QnumByPattern1(lines, Qnum1Group(raw_text))

\* lines 229-242, for the first hit i of the header scan
QnumByHint(lines, raw_text, i) ==
    IF i # 0 THEN StripZerosOr(LastOf(HintNumbers(lines, i)))
    ELSE QnumByPattern0(lines, raw_text, Qnum0Start(raw_text))

extract_quote_number(lines, raw_text) ==
    QnumByHint(lines, raw_text,
               First({i \in 1..Min(Len(lines), TOP_LINES) : IsHit(lines, i)}))

-----------------------------------------------------------------------------

(* QuoteDate: DATE_RX, strptime("%d/%m/%Y"), strftime("%m/%d/%Y").         *)

\* DATE_RX = \b([0-3]\d/[01]\d/\d{4})\b at i
DateAt(s, i) ==
    /\ WordBoundary(s, i)
    /\ i + 9 <= Len(s)
    /\ s[i] \in {"0","1","2","3"} /\ IsDigit(s[i+1]) /\ s[i+2] = "/"
    /\ s[i+3] \in {"0","1"} /\ IsDigit(s[i+4]) /\ s[i+5] = "/"
    /\ DigitsAt(s, i+6, 4)
    /\ WordBoundary(s, i + 10)

IsLeap(y) == (y % 4 = 0 /\ y % 100 # 0) \/ y % 400 = 0

DaysInMonth(y, m) ==
    IF m = 2 THEN (IF IsLeap(y) THEN 29 ELSE 28)
    ELSE IF m \in {4, 6, 9, 11} THEN 30 ELSE 31

TwoDigits(n) == <<Digits[(n \div 10) + 1], Digits[(n % 10) + 1]>>

\* strptime(..., "%d/%m/%Y").strftime("%m/%d/%Y"), "" on ValueError
Reformat(d, m, y) ==
    IF y >= 1 /\ m >= 1 /\ m <= 12 /\ d >= 1 /\ d <= DaysInMonth(y, m)
    THEN TwoDigits(m) \o <<"/">> \o TwoDigits(d) \o <<"/">> \o IntToStr(y)
    ELSE <<>>

\* lines 387-391, for the start i of the DATE_RX match
DateFrom(raw, i) ==
    IF i = 0 THEN <<>>
    ELSE Reformat(ParseInt(SubSeq(raw, i, i+1)), ParseInt(SubSeq(raw, i+3, i+4)),
                  ParseInt(SubSeq(raw, i+6, i+9)))

\* lines 385-391
extract_quote_date(raw) == DateFrom(raw, First({i \in 1..Len(raw) : DateAt(raw, i)}))

-----------------------------------------------------------------------------
(* extract_company.                                                        *)

COMPANY_LINES == 80

kwCliente == <<"c","l","i","e","n","t","e">>

COMPANY_NOISE ==
    { <<"c","o","n","t","a","c","t","o">>, <<"v","e","n","d","e","d","o","r">>,
      <<"t","e","l","e","f","o","n","o">>, <<"t","e","l","é","f","o","n","o">>,
      <<"m","o","n","e","d","a">>, <<"n","o",".">>, <<"n","°">>,
      <<"f","e","c","h","a">>,
      <<"a","t","e","n","t","a","m","e","n","t","e">> }

\* re.search(r"(Contacto|Vendedor|Tel[eé]fono|Moneda|No\.|N°|Fecha|Atentamente)", cand, re.I)
IsNoiseLabel(cand) == \E kw \in COMPANY_NOISE : Contains(cand, kw, TRUE)

Anywhere(p) == TRUE

\* the rest of the line from q
RestOfLine(s, q) == SubSeq(s, q, LineEnd(s, q))

\* CLIENTE_ANYLINE_RX = Cliente\s*:?\s*([^\n]*) matches in the line
HasCliente(ln) == \E i \in 1..Len(ln) : LitAt(ln, i, kwCliente, TRUE)

\* group 1 of the CLIENTE_ANYLINE_RX match in a line that has one
ClienteGroup(ln) ==
    RestOfLine(ln, GroupStart(ln, FindLit(ln, kwCliente, 1, TRUE) + 7, IsColon, FALSE,
                              Anywhere))

\* line 249, for the stripped group 1
NextLineOr(lines, i, same) ==
    IF (same = <<>> \/ Len(same) < 3) /\ i + 1 <= Len(lines)
    THEN Strip(lines[i+1]) ELSE <<>>

\* line 250
SameOrNext(same, next_line) == CollapseSpaces(IF same # <<>> THEN same ELSE next_line)

CandOf(lines, i, same) == SameOrNext(same, NextLineOr(lines, i, same))

\* lines 248-250: the candidate of line i, which matches
CompanyCand(lines, i) == CandOf(lines, i, Strip(ClienteGroup(lines[i])))

\* lines 251-253
CandAccepted(cand) == ~IsNoiseLabel(cand) /\ ~LooksLikeUrl(cand) /\ HasLetter(cand)

\* lines 246-253: line i returns its candidate
CompanyAt(lines, i) == HasCliente(lines[i]) /\ CandAccepted(CompanyCand(lines, i))

\* lines 245-253: <<returned, value>>
PrimaryAt(lines, i0) ==
    IF i0 = 0 THEN <<FALSE, <<>> >> ELSE <<TRUE, CompanyCand(lines, i0)>>

CompanyPrimary(lines) ==
    PrimaryAt(lines, First({i \in 1..Min(COMPANY_LINES, Len(lines)) : CompanyAt(lines, i)}))

\* Cliente\s*:?\s*([^\n]+) at i: the start of group 1, 0 when no match
ClienteStart(raw_text, i) ==
    IF LitAt(raw_text, i, kwCliente, TRUE)
    THEN GroupStart(raw_text, i + 7, IsColon, FALSE, LAMBDA q : LineCharAt(raw_text, q))
    ELSE 0

\* \n?([^\n]*) after group 1, which ends at e1: the start of group 2
Group2Start(raw_text, e1) ==
    IF e1 + 1 <= Len(raw_text) /\ raw_text[e1+1] = "\n" THEN e1 + 2 ELSE e1 + 1

\* lines 256-257
FirstNonBlank(g1, g2) == CollapseSpaces(IF Strip(g1) # <<>> THEN Strip(g1) ELSE Strip(g2))

\* lines 258-259
UnlessUrl(cand) == IF ~LooksLikeUrl(cand) THEN <<TRUE, cand>> ELSE <<FALSE, <<>> >>

FallbackGroups(raw_text, q, e1) ==
    UnlessUrl(FirstNonBlank(SubSeq(raw_text, q, e1),
                            RestOfLine(raw_text, Group2Start(raw_text, e1))))

FallbackFrom(raw_text, q) ==
    IF q = 0 THEN <<FALSE, <<>> >> ELSE FallbackGroups(raw_text, q, LineEnd(raw_text, q))

FallbackAt(raw_text, i0) ==
    IF i0 = 0 THEN <<FALSE, <<>> >> ELSE FallbackFrom(raw_text, ClienteStart(raw_text, i0))

\* lines 254-259: re.search(r"Cliente\s*:?\s*([^\n]+)\n?([^\n]*)", raw, re.I),
\* <<returned, value>>
CompanyFallback(raw_text) ==
    FallbackAt(raw_text, First({i \in 1..Len(raw_text) : ClienteStart(raw_text, i) # 0}))

\* lines 254-260, when the line scan returned nothing
FallbackOrEmpty(fb) == IF fb[1] THEN fb[2] ELSE <<>>

PrimaryOr(pr, raw_text) ==
    IF pr[1] THEN pr[2] ELSE FallbackOrEmpty(CompanyFallback(raw_text))

extract_company(lines, raw_text) == PrimaryOr(CompanyPrimary(lines), raw_text)

-----------------------------------------------------------------------------
(* extract_first_last_from_vigencia_contacto.                              *)

CONTACT_LINES == 8

kwVigencia == <<"v","i","g","e","n","c","i","a">>
kwContacto == <<"c","o","n","t","a","c","t","o">>

\* VIGENCIA_RX = Vigencia\s*: , ignoring case
HasVigencia(ln) ==
    \E i \in 1..Len(ln) :
        LitAt(ln, i, kwVigencia, TRUE) /\ ColonAt(ln, SkipSpaces(ln, i + 8))

\* Contacto\s*:\s*([^\n]+) at i: the start of group 1, 0 when no match
ContactoStart(s, i) ==
    IF LitAt(s, i, kwContacto, TRUE)
    THEN GroupStart(s, i + 8, IsColon, TRUE, LAMBDA q : LineCharAt(s, q))
    ELSE 0

ContactoFrom(s, q) == IF q = 0 THEN <<FALSE>> ELSE <<TRUE, RestOfLine(s, q)>>

ContactoAt(s, i0) == IF i0 = 0 THEN <<FALSE>> ELSE ContactoFrom(s, ContactoStart(s, i0))

HasContacto(s) == \E i \in 1..Len(s) : ContactoStart(s, i) # 0

\* Contacto\s*:\s*([^\n]+) searched in s: group 1, or <<FALSE>>
ContactoValue(s) == ContactoAt(s, First({i \in 1..Len(s) : ContactoStart(s, i) # 0}))

\* lines 276-280 (and 285-288): the matched value to (first, last)
ContactName(value) ==
    _split_first_last(CollapseSpaces(DropParens(_clean_inline_name(value))))

\* lines 283-290
ContactAnywhere(m_any) == IF m_any[1] THEN ContactName(m_any[2]) ELSE << <<>>, <<>> >>

\* lines 273-290, for the first line j after Vigencia that has a contact
ContactAtLine(lines, raw_text, j) ==
    IF j # 0 THEN ContactName(ContactoValue(lines[j])[2])
    ELSE ContactAnywhere(ContactoValue(raw_text))

\* lines 272-290, for the first line vig_idx that has Vigencia
ContactAfter(lines, raw_text, vig_idx) ==
    ContactAtLine(lines, raw_text,
        IF vig_idx = 0 THEN 0
        ELSE First({j \in (vig_idx + 1)..Min(vig_idx + CONTACT_LINES, Len(lines)) :
                       HasContacto(lines[j])}))

extract_first_last_from_vigencia_contacto(lines, raw_text) ==
    ContactAfter(lines, raw_text, FirstLine(lines, HasVigencia))

-----------------------------------------------------------------------------

(* extract_referral_manager_bottom.                                        *)

kwAtentamente == <<"a","t","e","n","t","a","m","e","n","t","e">>

\* ATN_WORD_RX = Atentamente\s*$ , ignoring case
HasAtentamente(ln) ==
    \E i \in 1..Len(ln) :
        LitAt(ln, i, kwAtentamente, TRUE) /\ SkipSpaces(ln, i + 11) > Len(ln)

\* re.search(r"^Visita\s*:", ln, re.I)
StartsWithVisita(ln) ==
    /\ LitAt(ln, 1, kwVisita, TRUE)
    /\ LET c == SkipSpaces(ln, 7) IN c <= Len(ln) /\ ln[c] = ":"

\* re.sub(r"\bVisita\s*:.*$", "", s, re.I) on a text of one line
CutAtVisita(s) ==
    LET i == First({i \in 1..Len(s) :
                      /\ WordBoundary(s, i)
                      /\ LitAt(s, i, kwVisita, TRUE)
                      /\ LET c == SkipSpaces(s, i + 6) IN c <= Len(s) /\ s[c] = ":"})
    IN IF i = 0 THEN s ELSE SubSeq(s, 1, i - 1)

\* re.sub(r"^\s*\d+\s+", "", s)
DropLeadingCodeWs(s) ==
    LET d == SkipSpaces(s, 1)
        a == DigitRunEnd(s, d)
    IN IF a >= d /\ a + 1 <= Len(s) /\ IsSpace(s[a+1])
       THEN Tail0(s, SkipSpaces(s, a + 1))
       ELSE s

\* str.title()
Title(s) ==
    [i \in 1..Len(s) |->
        IF IsAlpha(s[i])
        THEN (IF i > 1 /\ IsAlpha(s[i-1]) THEN Lower(s[i]) ELSE Upper(s[i]))
        ELSE s[i]]

\* the stripped, non-empty lines among lines[a..b], in the order given by
\* the index sequence ks
StrippedLines(lines, ks) ==
    SelectSeq([k \in 1..Len(ks) |-> Strip(lines[ks[k]])], LAMBDA ln : ln # <<>>)

extract_referral_manager_bottom(lines) ==
    LET last_idx == Last({i \in 1..Len(lines) : HasAtentamente(lines[i])})
    IN IF last_idx = 0 THEN <<>>
       ELSE LET \* 1-based: the window is lines[last_idx+1 .. stop-1]
                visita == First({j \in (last_idx + 1)..Min(last_idx + 9, Len(lines)) :
                                    StartsWithVisita(lines[j])})
                stop == IF visita # 0 THEN visita
                        ELSE Min(last_idx + 8, Len(lines)) + 1
                below == IF stop - 1 < last_idx + 1 THEN <<>>
                         ELSE [k \in 1..(stop - 1 - last_idx) |-> last_idx + k]
                joined == DropLeadingCodeWs(CutAtVisita(
                              Strip(Join(StrippedLines(lines, below), <<" ">>))))
                name == _best_name_from_text(joined)
                lo == Max(last_idx - 4, 1)
                above == IF last_idx - 1 < lo THEN <<>>
                         ELSE [k \in 1..(last_idx - lo) |-> last_idx - k]
                joined_above == DropLeadingCodeWs(
                                    Join(StrippedLines(lines, above), <<" ">>))
                name2 == _best_name_from_text(joined_above)
            IN IF name # <<>> /\ _looks_like_name(name) THEN Title(name)
               ELSE IF name2 # <<>> THEN Title(name2) ELSE <<>>

-----------------------------------------------------------------------------
(* extract_city_and_phone.                                                 *)

PHONE_LINES == 15

kwTel       == <<"t","e","l">>
kwTelefono  == { <<"t","e","l","e","f","o","n","o">>, <<"t","e","l","é","f","o","n","o">> }

\* the positions after the label (?:TEL\.?|Tel[eé]fono) at L, in the order
\* the alternatives are tried
TelLabelEnds(s, L) ==
    (IF LitAt(s, L, kwTel, TRUE) /\ L + 3 <= Len(s) /\ s[L+3] = "." THEN <<L + 4>> ELSE <<>>)
    \o (IF LitAt(s, L, kwTel, TRUE) THEN <<L + 3>> ELSE <<>>)
    \o (IF \E kw \in kwTelefono : LitAt(s, L, kw, TRUE) THEN <<L + 8>> ELSE <<>>)

\* ([^\n]+)$ can start at q: the rest of the text is one line, up to a
\* final line break
LastLineAt(s, q) ==
    /\ LineCharAt(s, q)
    /\ LineEnd(s, q) >= Len(s) - 1

\* \s*[:.]?\s*([^\n]+) after the first label end that matches: the start
\* of the group, 0 when none
TelValueStart(s, ends, Valid(_)) ==
    LET qs == [k \in 1..Len(ends) |-> GroupStart(s, ends[k], IsColonOrDot, FALSE, Valid)]
        ks == {k \in 1..Len(ends) : qs[k] # 0}
    IN IF ks = {} THEN 0 ELSE qs[First(ks)]

\* TEL_CITY_LINE_RX = (.+?)\s+(?:TEL\.?|Tel[eé]fono)\s*[:.]?\s*([^\n]+)$
\* searched in s: <<TRUE, group 1, group 2>> or <<FALSE>>.  Group 1 starts
\* at the leftmost i and is the shortest one-line text after which white
\* space, the label and a value running to the end follow.
TelCityMatch(s) ==
    LET tail(k) == TelValueStart(s, TelLabelEnds(s, SkipSpaces(s, k + 1)),
                                 LAMBDA q : LastLineAt(s, q))
        ok(i, k) == /\ LineEnd(s, i) >= k
                    /\ k + 1 <= Len(s) /\ IsSpace(s[k+1])
                    /\ tail(k) # 0
        i0 == First({i \in 1..Len(s) : \E k \in i..Len(s) : ok(i, k)})
    IN IF i0 = 0 THEN <<FALSE>>
       ELSE LET k0 == First({k \in i0..Len(s) : ok(i0, k)})
            IN <<TRUE, SubSeq(s, i0, k0), SubSeq(s, tail(k0), LineEnd(s, tail(k0)))>>

\* s.strip(" .,:;-")
StripChars(s, cs) ==
    LET ns == {i \in 1..Len(s) : s[i] \notin cs}
    IN IF ns = {} THEN <<>> ELSE SubSeq(s, First(ns), Last(ns))

\* re.sub(r"\s+", " ", s): every run of white space becomes one space
RECURSIVE SquashSpaces(_)
SquashSpaces(s) ==
    IF s = <<>> THEN <<>>
    ELSE IF IsSpace(s[1]) THEN <<" ">> \o SquashSpaces(Tail0(s, SkipSpaces(s, 1)))
    ELSE <<s[1]>> \o SquashSpaces(Tail(s))

TelCity(g1) == SquashSpaces(StripChars(g1, {" ", ".", ",", ":", ";", "-"}))

\* \bCliente\b, ignoring case
HasClienteWord(ln) ==
    \E i \in 1..Len(ln) :
        WordBoundary(ln, i) /\ LitAt(ln, i, kwCliente, TRUE) /\ WordBoundary(ln, i + 7)

\* TEL_ONLY_RXS[0] = \bTEL\.?\s*[:.]?\s*([^\n]+) at i: start of group 1
TelOnlyStart(s, i) ==
    IF WordBoundary(s, i) /\ LitAt(s, i, kwTel, TRUE)
    THEN TelValueStart(s, SubSeq(TelLabelEnds(s, i), 1,
                                 Len(TelLabelEnds(s, i))
                                   - (IF \E kw \in kwTelefono : LitAt(s, i, kw, TRUE)
                                      THEN 1 ELSE 0)),
                       LAMBDA q : LineCharAt(s, q))
    ELSE 0

\* TEL_ONLY_RXS[1] = Tel[eé]fono\s*[:.]?\s*([^\n]+) at i: start of group 1
TelefonoOnlyStart(s, i) ==
    IF \E kw \in kwTelefono : LitAt(s, i, kw, TRUE)
    THEN GroupStart(s, i + 8, IsColonOrDot, FALSE, LAMBDA q : LineCharAt(s, q))
    ELSE 0

\* for m in rx.finditer(raw): the first non-empty phone from position i on
RECURSIVE FirstPhone(_, _, _)
FirstPhone(s, accented, i) ==
    IF i > Len(s) THEN <<>>
    ELSE LET q == IF accented THEN TelefonoOnlyStart(s, i) ELSE TelOnlyStart(s, i)
         IN IF q = 0 THEN FirstPhone(s, accented, i + 1)
            ELSE LET phone == _fmt_phone_mx(SubSeq(s, q, LineEnd(s, q)))
                 IN IF phone # <<>> THEN phone
                    ELSE FirstPhone(s, accented, LineEnd(s, q) + 1)

\* the match of a line counts when the city before the label has a letter
TelCityHit(m) == m[1] /\ HasLetter(TelCity(m[2]))

\* lines 353-354: the lines looked at after the first Cliente line
TelLineHits(lines, cliente_idx) ==
    IF cliente_idx = 0 THEN {}
    ELSE {j \in (cliente_idx + 1)..Min(cliente_idx + PHONE_LINES - 1, Len(lines)) :
             TelCityHit(TelCityMatch(lines[j]))}

\* lines 357-361
LineCityPhone(m) == << Title(TelCity(m[2])), _fmt_phone_mx(m[3]) >>

\* lines 369-374, the second pattern of TEL_ONLY_RXS
PhoneOnlyLast(p2) == IF p2 # <<>> THEN << <<>>, p2 >> ELSE << <<>>, <<>> >>

\* lines 369-373, the first pattern of TEL_ONLY_RXS
PhoneOnly(p1, raw_text) ==
    IF p1 # <<>> THEN << <<>>, p1 >>
    ELSE PhoneOnlyLast(FirstPhone(raw_text, TRUE, 1))

\* lines 362-374
GenericCityPhone(m2, raw_text) ==
    IF m2[1] THEN << Title(TelCity(m2[2])), _fmt_phone_mx(Strip(m2[3])) >>
    ELSE PhoneOnly(FirstPhone(raw_text, FALSE, 1), raw_text)

\* j is the first line after Cliente that gives a city, 0 when none does
CityPhoneAt(lines, raw_text, j) ==
    IF j # 0 THEN LineCityPhone(TelCityMatch(lines[j]))
    ELSE GenericCityPhone(TelCityMatch(raw_text), raw_text)

extract_city_and_phone(lines, raw_text) ==
    CityPhoneAt(lines, raw_text,
                First(TelLineHits(lines, FirstLine(lines, HasClienteWord))))

-----------------------------------------------------------------------------
(* Currency: CUR_RX = Moneda\s*:\s*([A-Z]{3}), ignoring case.              *)

kwMoneda == <<"m","o","n","e","d","a">>

IsAsciiLetter(c) == c \in Range(LowerAZ) \/ c \in Range(UpperAZ)

\* lines 399-402
extract_currency(raw) ==
    LET start(i) == IF LitAt(raw, i, kwMoneda, TRUE)
                    THEN GroupStart(raw, i + 6, IsColon, TRUE,
                             LAMBDA q : q + 2 <= Len(raw)
                                        /\ \A k \in 0..2 : IsAsciiLetter(raw[q+k]))
                    ELSE 0
        i0 == First({i \in 1..Len(raw) : start(i) # 0})
    IN IF i0 = 0 THEN <<>>
       ELSE [k \in 1..3 |-> Upper(raw[start(i0) + k - 1])]

-----------------------------------------------------------------------------
(* The item block: ITEM_BLOCK_RX and lines 409-427 of parse_pdf.           *)

kwModelo   == <<"m","o","d","e","l","o">>
kwCantidad == <<"c","a","n","t","i","d","a","d">>
kwUnidad   == <<"u","n","i","d","a","d">>
kwArticulo == <<"a","r","t","i","c","u","l","o">>
kwImporte  == <<"i","m","p","o","r","t","e">>

\* the position after the first occurrence of kw at or after p, 0 when
\* p = 0 or there is none (a lazy .*? followed by a literal, (?is))
After(s, p, kw) ==
    IF p = 0 THEN 0
    ELSE LET i == FindLit(s, kw, p, TRUE) IN IF i = 0 THEN 0 ELSE i + Len(kw)

\* the header alternative that starts at p: the position after its "\n"
ItemHeaderEnd(s, p) ==
    IF LitAt(s, p, kwModelo, TRUE)
    THEN After(s, After(s, After(s, p + 6, kwCantidad), kwUnidad), <<"\n">>)
    ELSE IF LitAt(s, p, kwArticulo, TRUE)
    THEN After(s, After(s, p + 8, kwImporte), <<"\n">>)
    ELSE 0

\* (?:\nSub[\s-]?Total|\nSubtotal|\nSub Total) at t
ItemBlockStopAt(s, t) == t <= Len(s) /\ s[t] = "\n" /\ SubtotalAt(s, t + 1)

\* ITEM_BLOCK_RX.search(raw): <<TRUE, group 1>> or <<FALSE>>.  Every lazy
\* .*? stops at the first occurrence of what follows it: a later stop
\* leaves less text for the rest of the pattern, never more.
ItemBlock(raw) ==
    LET stop(p) == IF ItemHeaderEnd(raw, p) = 0 THEN 0
                   ELSE First({t \in ItemHeaderEnd(raw, p)..Len(raw) :
                                  ItemBlockStopAt(raw, t)})
        p0 == First({p \in 1..Len(raw) : stop(p) # 0})
    IN IF p0 = 0 THEN <<FALSE>>
       ELSE <<TRUE, SubSeq(raw, ItemHeaderEnd(raw, p0), stop(p0) - 1)>>

IsModelChar(c) == IsAZ(c) \/ IsDigit(c)                  \* [A-Z0-9]

\* end of the run of [A-Z0-9\-] starting at i
RECURSIVE ModelRunEnd(_, _)
ModelRunEnd(s, i) ==
    IF i <= Len(s) /\ (IsModelChar(s[i]) \/ s[i] = "-")
    THEN ModelRunEnd(s, i + 1) ELSE i - 1

\* re.search(r"([A-Z0-9][A-Z0-9\-]{5,})", s) matches at i
ModelCodeAt(s, i) == IsModelChar(s[i]) /\ ModelRunEnd(s, i + 1) - i + 1 >= 6

\* group 1 of the first match, <<>> when there is none
ModelCode(s) ==
    LET i == First({i \in 1..Len(s) : ModelCodeAt(s, i)})
    IN IF i = 0 THEN <<>> ELSE SubSeq(s, i, ModelRunEnd(s, i + 1))

\* s.replace(sub, "") for a non-empty sub
RECURSIVE RemoveAll(_, _)
RemoveAll(s, sub) ==
    LET i == FindLit(s, sub, 1, FALSE)
    IN IF i = 0 THEN s
       ELSE SubSeq(s, 1, i - 1) \o RemoveAll(Tail0(s, i + Len(sub)), sub)

UNITS_UPPER == { <<"P","Z","A">>, <<"K","I","T">>, <<"P","Z","A","S">>,
                 <<"S","E","T">>, <<"U","N","D">>, <<"P","C","S">> }

\* the positions a sub-pattern can leave the match at, from a set of
\* positions ps (each the index of the next character to read)
AfterSpaces(s, ps) == UNION {p..SkipSpaces(s, p) : p \in ps}                \* \s*
AfterOptUnit(s, ps) ==                                       \* (?:PZA|...)?
    ps \cup {x[1] + Len(x[2]) :
                x \in {x \in ps \X UNITS_UPPER : LitAt(s, x[1], x[2], FALSE)}}
AfterOptFrac(s, ps) ==                                       \* (?:\.\d{2})?
    ps \cup {p + 3 : p \in {p \in ps : p <= Len(s) /\ s[p] = "." /\ DigitsAt(s, p + 1, 2)}}
AfterAmountChars(s, ps) ==                                   \* [\d, ]*
    {q \in 1..(Len(s) + 1) :
        \E p \in ps : p <= q /\ \A j \in p..(q - 1) : IsDigit(s[j]) \/ s[j] \in {",", " "}}

\* \s+\d+(?:\.\d{2})?\s*(?:PZA|KIT|PZAS|SET|UND|PCS)?\s*[\d, ]*\.\d{2}.*$
\* matches at i
PriceTailAt(s, i) ==
    /\ IsSpace(s[i])
    /\ LET d == SkipSpaces(s, i)
           a == DigitRunEnd(s, d)
           p1 == IF a < d THEN {} ELSE (d + 1)..(a + 1)          \* \d+
           p6 == AfterAmountChars(s, AfterSpaces(s, AfterOptUnit(s,
                     AfterSpaces(s, AfterOptFrac(s, p1)))))
       IN /\ \E q \in p6 : q <= Len(s) /\ s[q] = "." /\ DigitsAt(s, q + 1, 2)
          /\ LineEnd(s, i) >= Len(s) - 1

\* re.sub(<the pattern above>, "", desc)
DropPriceTail(desc) ==
    LET i == First({i \in 1..Len(desc) : PriceTailAt(desc, i)})
    IN IF i = 0 THEN desc ELSE SubSeq(desc, 1, i - 1)

\* line 415 without the count: no block is ever treated as multi-row
IsMulti_never(item_rows) == FALSE

\* line 415: more than one non-blank row
IsMulti(item_rows) == Len(SelectSeq(item_rows, LAMBDA r : Strip(r) # <<>>)) > 1

\* lines 424-427
ItemDesc(first_line, item_id) ==
    Strip(DropPriceTail(IF item_id # <<>>
                        THEN Strip(RemoveAll(first_line, item_id))
                        ELSE first_line))

\* lines 417-427
SingleItem(first_line, item_id, qty_total) ==
    << item_id, ItemDesc(first_line, item_id), qty_total >>

\* lines 414-427
ItemsOfRows(item_rows, qty_total) ==
    IF ~IsMulti(item_rows) /\ item_rows # <<>>
    THEN SingleItem(item_rows[1], ModelCode(item_rows[1]), qty_total)
    ELSE << <<>>, <<>>, qty_total >>

\* lines 411-416
ItemsOfBlock(m_block, tieUp) ==
    IF ~m_block[1] THEN << <<>>, <<>>, <<>> >>
    ELSE ItemsOfRows(split_into_item_rows(m_block[2]),
                     sum_quantities_advanced(m_block[2], tieUp))

\* lines 409-427: <<item_id, item_desc, qty_total>>
extract_items(raw, tieUp) == ItemsOfBlock(ItemBlock(raw), tieUp)

-----------------------------------------------------------------------------
(* parse_pdf: the record assembler.                                        *)
(*                                                                         *)
(* An uploaded file's bytes are modelled by what pdfminer makes of them:   *)
(* the text it extracts, or the fact that it raises.  A record (a Python   *)
(* dict, which keeps insertion order) is the sequence of its items.        *)

\* lines 31-36
_extract_text(file_bytes) ==
    IF file_bytes.corrupt THEN <<>> ELSE file_bytes.text

sFinsa    == <<"F","i","n","s","a">>
sMexico   == <<"M","e","x","i","c","o">>
sMXN      == <<"M","X","N">>
sFinsaPdf == <<"F","I","N","S","A","_">>
sDotPdf   == <<".","p","d","f">>

Item(col, val) == [col |-> col, val |-> val]

\* {col: "" for col in out_cols}: a repeated name keeps its first place
EmptyRow(out_cols) ==
    LET F[k \in 0..Len(out_cols)] ==
          IF k = 0 THEN <<>>
          ELSE IF \E j \in 1..(k-1) : out_cols[j] = out_cols[k] THEN F[k-1]
          ELSE Append(F[k-1], Item(out_cols[k], <<>>))
    IN F[Len(out_cols)]

\* row[col], for a col of the row
Get(row, col) == row[CHOOSE k \in 1..Len(row) : row[k].col = col].val
HasKey(row, col) == \E k \in 1..Len(row) : row[k].col = col          \* col in row
Keys(row) == [k \in 1..Len(row) |-> row[k].col]

\* setcol without the test of line 434: row[col] = val adds a missing key
setcol_unchecked(row, col, val) ==
    IF HasKey(row, col)
    THEN [k \in 1..Len(row) |-> IF row[k].col = col THEN Item(col, val) ELSE row[k]]
    ELSE Append(row, Item(col, val))

\* lines 433-435
setcol(row, col, val) ==
    IF HasKey(row, col)
    THEN [k \in 1..Len(row) |-> IF row[k].col = col THEN Item(col, val) ELSE row[k]]
    ELSE row

\* line 429 without the fallback to the uploaded file's name
PdfName_always(qnum, file_name) == sFinsaPdf \o qnum \o sDotPdf

\* line 429
PdfName(qnum, file_name) ==
    IF qnum # <<>> THEN sFinsaPdf \o qnum \o sDotPdf ELSE file_name

\* lines 437-458, in order
Assignments(file_name, qnum, qdate, company, name, cityphone, currency, referral_mgr, total, items) ==
    << <<"ReferralManager", referral_mgr>>,
       <<"ReferralEmail", <<>> >>,
       <<"Brand", sFinsa>>,
       <<"QuoteNumber", qnum>>,
       <<"QuoteDate", qdate>>,
       <<"Company", company>>,
       <<"FirstName", name[1]>>,
       <<"LastName", name[2]>>,
       <<"ContactEmail", <<>> >>,
       <<"ContactPhone", cityphone[2]>>,
       <<"Address", <<>> >>,
       <<"County", <<>> >>,
       <<"City", cityphone[1]>>,
       <<"State", <<>> >>,
       <<"ZipCode", <<>> >>,
       <<"Country", IF currency = sMXN THEN sMexico ELSE <<>> >>,
       <<"item_id", items[1]>>,
       <<"item_desc", items[2]>>,
       <<"Quantity", items[3]>>,
       <<"TotalSales", total>>,
       <<"PDF", PdfName(qnum, file_name)>> >>

\* the calls of setcol from the k-th on
RECURSIVE SetAll(_, _, _)
SetAll(row, sets, k) ==
    IF k > Len(sets) THEN row
    ELSE SetAll(setcol(row, sets[k][1], sets[k][2]), sets, k + 1)

\* lines 382-458, from the text and its non-blank lines
ParseLines(file_name, raw, lines, out_cols, tieUp) ==
    SetAll(EmptyRow(out_cols),
           Assignments(file_name,
                       extract_quote_number(lines, raw),
                       extract_quote_date(raw),
                       extract_company(lines, raw),
                       extract_first_last_from_vigencia_contacto(lines, raw),
                       extract_city_and_phone(lines, raw),
                       extract_currency(raw),
                       extract_referral_manager_bottom(lines),
                       find_total_third_money_line(raw),
                       extract_items(raw, tieUp)),
           1)

\* lines 380-381
ParseText(file_name, raw, out_cols, tieUp) ==
    ParseLines(file_name, raw, NonBlankLines(raw), out_cols, tieUp)

parse_pdf(file_name, data, out_cols, tieUp) ==
    ParseText(file_name, _extract_text(data), out_cols, tieUp)

-----------------------------------------------------------------------------
(* The batch loop of the "Extract to CSV" button, lines 490-514.           *)

MAX_FILES == 100
MAX_FILE_MB == 25
SIZE_LIMIT == MAX_FILE_MB * 1024 * 1024

\* the exceptions f.read() or parse_pdf may raise, by type name and text
Exceptions == { <<"OSError", "read failed">> }

\* line 499
LimitMessage(f) == <<f.name, "exceeds", MAX_FILE_MB, "MB limit.">>
\* line 507
ErrorMessage(f, e) == <<f.name, e[2]>>
\* lines 505-506
ErrorMarker(f, e) ==
    << Item("PDF", f.name), Item("_ERROR", e), Item("_TRACE", <<"Traceback", e>>) >>

\* lines 490-493: the click; files[:MAX_FILES] of lines 486-488 is applied
\* on every run of the script
ClickExtract ==
    /\ pc = "idle"
    /\ IF files = <<>>
       THEN /\ pc' = "stopped"
            /\ UNCHANGED files
       ELSE /\ pc' = "loop"
            /\ files' = Take(files, MAX_FILES)
    /\ idx' = 0
    /\ rows' = <<>>
    /\ errors' = <<>>
    /\ UNCHANGED <<mapping_cols, arg, ret>>

\* lines 498-500
SkipOversize ==
    /\ pc = "loop"
    /\ idx < Len(files)
    /\ files[idx + 1].size > SIZE_LIMIT
    /\ errors' = Append(errors, LimitMessage(files[idx + 1]))
    /\ idx' = idx + 1
    /\ UNCHANGED <<pc, files, mapping_cols, rows, arg, ret>>

\* lines 501-503
AppendRow ==
    /\ pc = "loop"
    /\ idx < Len(files)
    /\ files[idx + 1].size <= SIZE_LIMIT
    /\ \E tieUp \in BOOLEAN :
         rows' = Append(rows, parse_pdf(files[idx + 1].name, files[idx + 1].data,
                                        mapping_cols, tieUp))
    /\ idx' = idx + 1
    /\ UNCHANGED <<pc, files, mapping_cols, errors, arg, ret>>

\* AppendErrorMarker without the try/except of lines 501-507: the exception
\* ends the run in the middle of the batch
AppendErrorMarker_uncaught ==
    /\ pc = "loop"
    /\ idx < Len(files)
    /\ files[idx + 1].size <= SIZE_LIMIT
    /\ \E e \in Exceptions :
         errors' = Append(errors, ErrorMessage(files[idx + 1], e))
    /\ pc' = "done"
    /\ UNCHANGED <<files, mapping_cols, idx, rows, arg, ret>>

\* lines 504-507
AppendErrorMarker ==
    /\ pc = "loop"
    /\ idx < Len(files)
    /\ files[idx + 1].size <= SIZE_LIMIT
    /\ \E e \in Exceptions :
         /\ rows' = Append(rows, ErrorMarker(files[idx + 1], e))
         /\ errors' = Append(errors, ErrorMessage(files[idx + 1], e))
    /\ idx' = idx + 1
    /\ UNCHANGED <<pc, files, mapping_cols, arg, ret>>

\* the loop is over: lines 509-543 report and export, and change neither
\* rows nor errors
FinishBatch ==
    /\ pc = "loop"
    /\ idx = Len(files)
    /\ pc' = "done"
    /\ UNCHANGED <<files, mapping_cols, idx, rows, errors, arg, ret>>

-----------------------------------------------------------------------------
(* The inputs the specifications draw from.  Every text is a str the       *)
(* program can be handed: the characters of the lines named below.         *)

SeqsUpTo(S, n) == UNION {[1..k -> S] : k \in 0..n}

\* the sequences over S, of length at most n, without a repeated member
DistinctSeqsUpTo(S, n) ==
    {q \in SeqsUpTo(S, n) : \A i, j \in 1..Len(q) : i # j => q[i] # q[j]}

\* lines joined by "\n", as the text extraction hands them over
JoinLines(ls) == Join(ls, <<"\n">>)

RECURSIVE Concat(_)
Concat(parts) == IF parts = <<>> THEN <<>> ELSE parts[1] \o Concat(Tail(parts))

\* Cliente: ACME SA\nMoneda: MXN\nTotal 1,00\n
DocQuote ==
    <<"C","l","i","e","n","t","e",":"," ","A","C","M","E"," ","S","A","\n",
      "M","o","n","e","d","a",":"," ","M","X","N","\n","T","o","t","a","l",
      " ","1",",","0","0","\n">>

\* a.pdf
NameA ==
    <<"a",".","p","d","f">>

\* b.pdf
NameB ==
    <<"b",".","p","d","f">>

\* c.pdf
NameC ==
    <<"c",".","p","d","f">>

-----------------------------------------------------------------------------
(* The batch run: a click on "Extract to CSV" over the uploaded files.     *)

MaxFiles == 3

\* an upload within the limit, one over it, and one at the limit whose bytes
\* pdfminer cannot read
FilePool ==
    { [name |-> NameA, size |-> 1024,
       data |-> [text |-> DocQuote, corrupt |-> FALSE]],
      [name |-> NameB, size |-> SIZE_LIMIT + 1,
       data |-> [text |-> DocQuote, corrupt |-> FALSE]],
      [name |-> NameC, size |-> SIZE_LIMIT,
       data |-> [text |-> <<>>, corrupt |-> TRUE]] }

\* the header row of the mapping file
BatchSchemas == { <<"PDF", "Company", "TotalSales">>, <<"Brand", "Notes">> }

Init ==
    /\ pc = "idle"
    /\ files \in SeqsUpTo(FilePool, MaxFiles)
    /\ mapping_cols \in BatchSchemas
    /\ idx = 0
    /\ rows = <<>>
    /\ errors = <<>>
    /\ arg = <<>>
    /\ ret = <<>>

Next ==
    \/ ClickExtract
    \/ SkipOversize
    \/ AppendRow
    \/ AppendErrorMarker
    \/ FinishBatch

Spec == Init /\ [][Next]_vars

WithinLimit(f) == f.size <= MAX_FILE_MB * 1024 * 1024
OverLimit(f) == ~WithinLimit(f)

\* a record with every name of the schema, in the schema's order
IsFullRecord(r) == Keys(r) = mapping_cols

\* the marker of one document: the file's name and an error note
IsErrorMarkerOf(r, f) ==
    /\ HasKey(r, "PDF") /\ Get(r, "PDF") = f.name
    /\ HasKey(r, "_ERROR") /\ Get(r, "_ERROR") # <<>>
    /\ ~ \E k \in 1..Len(r) : r[k].col \in Range(mapping_cols) \ {"PDF"}

IsSkipMessage(m) == Len(m) = 4 /\ m[2] = "exceeds"

\* C5: the batch loop ends only once every file is visited; the files
\* visited so far that are within the size limit have contributed, in
\* order, exactly one row each, which is a full record or the file's error
\* marker and never a partly filled record; the oversize files visited so
\* far have contributed no row and, in order, exactly one skip message each.
C5_BatchNeverStops ==
    /\ pc = "done" => idx = Len(files)
    /\ pc \in {"loop", "done"} =>
         LET seen   == SubSeq(files, 1, idx)
             within == SelectSeq(seen, WithinLimit)
             over   == SelectSeq(seen, OverLimit)
             skips  == SelectSeq(errors, IsSkipMessage)
         IN /\ Len(rows) = Len(within)
            /\ \A k \in 1..Len(rows) :
                 \/ IsFullRecord(rows[k])
                 \/ IsErrorMarkerOf(rows[k], within[k])
            /\ Len(skips) = Len(over)
            /\ \A k \in 1..Len(skips) :
                 skips[k][1] = over[k].name /\ skips[k][3] = MAX_FILE_MB

\* a finished batch of three files: one failed, one was skipped, one parsed
C5_Witness ==
    /\ pc = "done"
    /\ Len(files) = MaxFiles
    /\ Len(rows) = 2
    /\ \E k \in 1..2 : IsFullRecord(rows[k])
    /\ \E k \in 1..2 : ~IsFullRecord(rows[k])
    /\ \E k \in 1..Len(errors) : IsSkipMessage(errors[k])


-----------------------------------------------------------------------------
(* One call of a function of the engine: pc goes from "call" to "return",  *)
(* arg is what the function is handed and ret what it returns.  The batch  *)
(* variables stay as they are before any upload.                           *)

NoBatch ==
    /\ files = <<>>
    /\ mapping_cols = <<>>
    /\ idx = 0
    /\ rows = <<>>
    /\ errors = <<>>

-----------------------------------------------------------------------------
(* parse_pdf over schemas of distinct names.                               *)

MaxCols == 3

\* three names the assembler fills and two it does not know
ColPool == {"Brand", "PDF", "Company", "Notes", "Extra"}

\* bytes that give a quote's text, bytes that give no text, and bytes on
\* which the text extraction raises
DataPool ==
    { [text |-> DocQuote, corrupt |-> FALSE],
      [text |-> <<>>, corrupt |-> FALSE],
      [text |-> DocQuote, corrupt |-> TRUE] }

InitAssemble ==
    /\ pc = "call"
    /\ arg \in [file_name : {NameA, NameC},
                data : DataPool,
                out_cols : DistinctSeqsUpTo(ColPool, MaxCols)]
    /\ ret = <<>>
    /\ NoBatch

CallParsePdf ==
    /\ pc = "call"
    /\ \E tieUp \in BOOLEAN :
         ret' = parse_pdf(arg.file_name, arg.data, arg.out_cols, tieUp)
    /\ pc' = "return"
    /\ UNCHANGED <<files, mapping_cols, idx, rows, errors, arg>>

SpecAssemble == InitAssemble /\ [][CallParsePdf]_vars

\* the names parse_pdf assigns a value to
KnownFields ==
    {"ReferralManager", "ReferralEmail", "Brand", "QuoteNumber", "QuoteDate",
     "Company", "FirstName", "LastName", "ContactEmail", "ContactPhone",
     "Address", "County", "City", "State", "ZipCode", "Country", "item_id",
     "item_desc", "Quantity", "TotalSales", "PDF"}

\* C1: the record parse_pdf returns for a schema of distinct names has
\* exactly the schema's names as keys, in the schema's order, and every
\* name that is not a field the assembler fills maps to the empty string.
C1_RecordFollowsSchema ==
    pc = "return" =>
        /\ Keys(ret) = arg.out_cols
        /\ \A k \in 1..Len(ret) :
               ret[k].col \notin KnownFields => ret[k].val = <<>>

\* a record of a quote's text with a filled field next to an unknown name
C1_Witness ==
    /\ pc = "return"
    /\ Len(arg.out_cols) = MaxCols
    /\ "Notes" \in Range(arg.out_cols)
    /\ \E k \in 1..Len(ret) : ret[k].col = "Company" /\ ret[k].val # <<>>

\* the text is empty, or its extraction failed and was replaced by ""
EmptyInput == arg.data.corrupt \/ arg.data.text = <<>>

\* what a field holds when the text is empty
ValueOnEmptyText(col) ==
    IF col = "Brand" THEN sFinsa
    ELSE IF col = "PDF" THEN arg.file_name
    ELSE <<>>

\* C2, amended: with the empty string as input text (also when the text
\* extraction failed and gave ""), parse_pdf returns for any schema a record
\* of the schema's names in which Brand is "Finsa", PDF is the uploaded
\* file's name and every other field is the empty string.
C2_EmptyTextGivesConstantsOnly ==
    pc = "return" /\ EmptyInput =>
        /\ Keys(ret) = arg.out_cols
        /\ \A k \in 1..Len(ret) : ret[k].val = ValueOnEmptyText(ret[k].col)

\* the record of a file whose text extraction failed, under a schema with
\* Brand, PDF and Company
C2_Witness ==
    /\ pc = "return"
    /\ arg.data.corrupt
    /\ {"Brand", "PDF", "Company"} \subseteq Range(arg.out_cols)
    /\ Len(ret) = 3

\* C2 as stated: with the empty string as input text every schema field of
\* the record is the empty string.
C2_EveryFieldEmpty ==
    pc = "return" /\ EmptyInput => \A k \in 1..Len(ret) : ret[k].val = <<>>

-----------------------------------------------------------------------------
(* find_total_third_money_line over texts put together from pieces.  A     *)
(* piece is some lines of text; with it goes what is in it to the eye: for *)
(* each of its non-blank lines, whether the line is a totals anchor        *)
(* ("sub": a subtotal, "total": a standalone total, "none") and the        *)
(* amounts written on it, in canonical form.                               *)

MaxPieces == 4

\* Subtotal 1.234,56
PieceSubtotal ==
    [text |->
        <<"S","u","b","t","o","t","a","l"," ","1",".","2","3","4",",","5",
          "6">>,
     lines |-> <<[anchor |-> "sub", tokens |-> <<<<"1","2","3","4",".","5","6">>>>]>>]

\* Total 2,00 3,00, indented
PieceTotal ==
    [text |->
        <<" ","T","o","t","a","l"," ","2",",","0","0"," ","3",",","0","0">>,
     lines |-> <<[anchor |-> "total", tokens |-> <<<<"2",".","0","0">>, <<"3",".","0","0">>>>]>>]

\* 4.00 43: one amount, then a bare integer
PieceAmount ==
    [text |->
        <<"4",".","0","0"," ","4","3">>,
     lines |-> <<[anchor |-> "none", tokens |-> <<<<"4",".","0","0">>>>]>>]

\* Total de Articulos 5: a count, no anchor
PieceArticles ==
    [text |->
        <<"T","o","t","a","l"," ","d","e"," ","A","r","t","i","c","u","l",
          "o","s"," ","5">>,
     lines |-> <<[anchor |-> "none", tokens |-> <<>>]>>]

\* 19 lines "x", then a blank line
PiecePad ==
    [text |->
        <<"x","\n","x","\n","x","\n","x","\n","x","\n","x","\n","x","\n",
          "x","\n","x","\n","x","\n","x","\n","x","\n","x","\n","x","\n",
          "x","\n","x","\n","x","\n","x","\n","x","\n"," "," "," ">>,
     lines |-> <<[anchor |-> "none", tokens |-> <<>>],
                   [anchor |-> "none", tokens |-> <<>>],
                   [anchor |-> "none", tokens |-> <<>>],
                   [anchor |-> "none", tokens |-> <<>>],
                   [anchor |-> "none", tokens |-> <<>>],
                   [anchor |-> "none", tokens |-> <<>>],
                   [anchor |-> "none", tokens |-> <<>>],
                   [anchor |-> "none", tokens |-> <<>>],
                   [anchor |-> "none", tokens |-> <<>>],
                   [anchor |-> "none", tokens |-> <<>>],
                   [anchor |-> "none", tokens |-> <<>>],
                   [anchor |-> "none", tokens |-> <<>>],
                   [anchor |-> "none", tokens |-> <<>>],
                   [anchor |-> "none", tokens |-> <<>>],
                   [anchor |-> "none", tokens |-> <<>>],
                   [anchor |-> "none", tokens |-> <<>>],
                   [anchor |-> "none", tokens |-> <<>>],
                   [anchor |-> "none", tokens |-> <<>>],
                   [anchor |-> "none", tokens |-> <<>>]>>]


PiecePool == {PieceSubtotal, PieceTotal, PieceAmount, PieceArticles, PiecePad}

\* the text of a sequence of pieces
TextOf(pieces) == JoinLines([k \in 1..Len(pieces) |-> pieces[k].text])

InitTotals ==
    /\ pc = "call"
    /\ arg \in SeqsUpTo(PiecePool, MaxPieces)
    /\ ret = <<>>
    /\ NoBatch

CallFindTotal ==
    /\ pc = "call"
    /\ ret' = find_total_third_money_line(TextOf(arg))
    /\ pc' = "return"
    /\ UNCHANGED <<files, mapping_cols, idx, rows, errors, arg>>

SpecTotals == InitTotals /\ [][CallFindTotal]_vars

\* the non-blank lines of the pieces, as what is written on them
WrittenLines(pieces) == Concat([k \in 1..Len(pieces) |-> pieces[k].lines])

\* the anchor line: the first subtotal, else the first standalone total,
\* 0 when there is neither
AnchorOf(ls) ==
    IF \E k \in 1..Len(ls) : ls[k].anchor = "sub"
    THEN First({k \in 1..Len(ls) : ls[k].anchor = "sub"})
    ELSE First({k \in 1..Len(ls) : ls[k].anchor = "total"})

\* the amounts on the 20 lines starting at line a, in document order
AmountsFrom(ls, a) ==
    Concat([k \in 1..(Min(Len(ls), a + 19) - a + 1) |-> ls[a + k - 1].tokens])

WindowAmounts(pieces) ==
    AmountsFrom(WrittenLines(pieces), AnchorOf(WrittenLines(pieces)))

HasAnchor(pieces) == AnchorOf(WrittenLines(pieces)) # 0

\* C3: for a text with a totals anchor, find_total_third_money_line returns
\* the third of the normalized amounts found, in document order, on the 20
\* non-blank lines starting at the anchor line when there are at least
\* three, whatever follows it in the window; else the last one when there
\* is at least one; else the empty string.
C3_ThirdElseLastElseEmpty ==
    pc = "return" /\ HasAnchor(arg) =>
        ret = IF Len(WindowAmounts(arg)) >= 3 THEN WindowAmounts(arg)[3]
              ELSE IF Len(WindowAmounts(arg)) >= 1
              THEN WindowAmounts(arg)[Len(WindowAmounts(arg))]
              ELSE <<>>

\* a window of five amounts: the third is returned, not the last
C3_Witness ==
    /\ pc = "return"
    /\ HasAnchor(arg)
    /\ Len(WindowAmounts(arg)) = 5
    /\ ret = WindowAmounts(arg)[3]
    /\ ret # WindowAmounts(arg)[5]

-----------------------------------------------------------------------------
(* The normalization of one monetary literal, lines 166-175.  A literal is *)
(* written the way MONEY_RX reads it: 1-3 leading digits, groups of a      *)
(* separator and 3 digits, a last separator and 2 digits.                  *)

MaxGroups == 2

Separators  == {",", "."}
LeadDigits  == { <<"1">>, <<"1","2">>, <<"1","2","3">> }
GroupDigits == { <<"2","3","4">>, <<"0","0","0">> }
TailDigits  == { <<"5","6">>, <<"0","0">> }

\* the characters of the literal
LiteralOf(lit) ==
    lit.lead
      \o Concat([k \in 1..Len(lit.groups) |-> <<lit.groups[k].sep>> \o lit.groups[k].digits])
      \o <<lit.tail.sep>> \o lit.tail.digits

\* the amount in canonical form: the digits, with "." before the last two
CanonicalOf(lit) ==
    lit.lead
      \o Concat([k \in 1..Len(lit.groups) |-> lit.groups[k].digits])
      \o <<".">> \o lit.tail.digits

InitMoney ==
    /\ pc = "call"
    /\ arg \in [lead : LeadDigits,
                groups : SeqsUpTo([sep : Separators, digits : GroupDigits], MaxGroups),
                tail : [sep : Separators, digits : TailDigits]]
    /\ ret = <<>>
    /\ NoBatch

\* lines 164-175 for a line that holds the literal
CallNormalize ==
    /\ pc = "call"
    /\ ret' = WindowMonies(<<LiteralOf(arg)>>)
    /\ pc' = "return"
    /\ UNCHANGED <<files, mapping_cols, idx, rows, errors, arg>>

SpecMoney == InitMoney /\ [][CallNormalize]_vars

\* C4: a literal that matches the monetary pattern is normalized to the
\* canonical string of its amount: its digits with "." as the one decimal
\* separator before the last two and no thousands separator, so that the
\* same amount written in either separator convention gives the same string.
C4_CanonicalAmount ==
    pc = "return" => ret = <<CanonicalOf(arg)>>

-----------------------------------------------------------------------------
(* sum_quantities_advanced over table regions put together from rows.      *)
(* With the text of a row goes what is written on it: its quantity, as     *)
(* the decimal <<m, e>> = m / 10^e, and whether a unit keyword follows the *)
(* quantity.  Every row ends with a unit price and an amount.              *)

MaxItemRows == 3

\* AB-1234 tornillo 2 PZA 10.00 20.00
RowScrews ==
    [text |->
        <<"A","B","-","1","2","3","4"," ","t","o","r","n","i","l","l","o",
          " ","2"," ","P","Z","A"," ","1","0",".","0","0"," ","2","0",".",
          "0","0">>,
     qty |-> <<2, 0>>, unit |-> TRUE]

\* tuerca 3 KIT 1,00 3,00
RowNuts ==
    [text |->
        <<"t","u","e","r","c","a"," ","3"," ","K","I","T"," ","1",",","0",
          "0"," ","3",",","0","0">>,
     qty |-> <<3, 0>>, unit |-> TRUE]

\* rondana 0.125 PZA 8.00 1.00
RowWashers ==
    [text |->
        <<"r","o","n","d","a","n","a"," ","0",".","1","2","5"," ","P","Z",
          "A"," ","8",".","0","0"," ","1",".","0","0">>,
     qty |-> <<125, 3>>, unit |-> TRUE]

\* clavo 1.50 pcs 2.00 3.00
RowNails ==
    [text |->
        <<"c","l","a","v","o"," ","1",".","5","0"," ","p","c","s"," ","2",
          ".","0","0"," ","3",".","0","0">>,
     qty |-> <<150, 2>>, unit |-> TRUE]

\* cable 7 1.00 7.00
RowCable ==
    [text |->
        <<"c","a","b","l","e"," ","7"," ","1",".","0","0"," ","7",".","0",
          "0">>,
     qty |-> <<7, 0>>, unit |-> FALSE]


RowPool == {RowScrews, RowNuts, RowWashers, RowNails, RowCable}

InitQuantity ==
    /\ pc = "call"
    /\ arg \in SeqsUpTo(RowPool, MaxItemRows)
    /\ ret = <<>>
    /\ NoBatch

CallSumQuantities ==
    /\ pc = "call"
    /\ \E tieUp \in BOOLEAN : ret' = sum_quantities_advanced(TextOf(arg), tieUp)
    /\ pc' = "return"
    /\ UNCHANGED <<files, mapping_cols, idx, rows, errors, arg>>

SpecQuantity == InitQuantity /\ [][CallSumQuantities]_vars

\* several rows, each with a quantity next to a unit keyword
SeveralUnitRows(rs) == Len(rs) >= 2 /\ \A k \in 1..Len(rs) : rs[k].unit

\* the arithmetic sum of the quantities written on the rows
RECURSIVE WrittenSum(_)
WrittenSum(rs) ==
    IF rs = <<>> THEN <<0, 0>>
    ELSE <<WrittenSum(Tail(rs))[1] * Pow10(3 - WrittenSum(Tail(rs))[2])
             + rs[1].qty[1] * Pow10(3 - rs[1].qty[2]), 3>>

\* the string q is a number written without trailing zeros after the
\* point and without a trailing point
WrittenShort(q) ==
    /\ q # <<>>
    /\ q[Len(q)] # "."
    /\ Has(q, ".") => q[Len(q)] # "0"

\* the number the string q writes, in thousandths
Thousandths(q) == ParseFloat(q)[1] * Pow10(3 - ParseFloat(q)[2])

\* C7, amended: for a table region of several item rows, each with a
\* quantity next to a recognized unit keyword, the Quantity produced by
\* sum_quantities_advanced is the arithmetic sum of the per-row quantities
\* rounded to two decimal places (a sum halfway between two hundredths goes
\* to either), written without trailing zeros or a trailing decimal point.
C7_SumRoundedToHundredths ==
    pc = "return" /\ SeveralUnitRows(arg) =>
        /\ WrittenShort(ret)
        /\ ParseFloat(ret)[2] <= 2
        /\ Thousandths(ret) - WrittenSum(arg)[1] \in -5..5

\* 2 and 3 give "5", and 0.125 and 2 give a sum cut to two decimals
C7_Witness ==
    \/ pc = "return" /\ arg = <<RowScrews, RowNuts>> /\ ret = <<"5">>
    \/ /\ pc = "return" /\ arg = <<RowWashers, RowScrews>>
       /\ ret \in { <<"2",".","1","2">>, <<"2",".","1","3">> }

\* C7 as stated: the Quantity equals the arithmetic sum of the per-row
\* quantities, written without trailing zeros or a trailing decimal point.
C7_ExactSum ==
    pc = "return" /\ SeveralUnitRows(arg) =>
        /\ WrittenShort(ret)
        /\ ParseFloat(ret)[2] <= 3
        /\ Thousandths(ret) = WrittenSum(arg)[1]

-----------------------------------------------------------------------------
(* The item fields of parse_pdf over quotes whose item table is put        *)
(* together from lines.  With the text of a line goes what is written on   *)
(* it: whether it ends an item row (it carries a unit price and an amount) *)
(* and whether it carries a model code.                                    *)

MaxItemLines == 3

\* AB-1234 perno 2 PZA 1.00 2.00
LineScrews ==
    [text |->
        <<"A","B","-","1","2","3","4"," ","p","e","r","n","o"," ","2"," ",
          "P","Z","A"," ","1",".","0","0"," ","2",".","0","0">>,
     closes |-> TRUE, code |-> TRUE]

\* tuerca 3 KIT 1,00 3,00
LineNuts ==
    [text |->
        <<"t","u","e","r","c","a"," ","3"," ","K","I","T"," ","1",",","0",
          "0"," ","3",",","0","0">>,
     closes |-> TRUE, code |-> FALSE]

\* largo
LineNote ==
    [text |->
        <<"l","a","r","g","o">>,
     closes |-> FALSE, code |-> FALSE]

\* XYZ-9876
LineCode ==
    [text |->
        <<"X","Y","Z","-","9","8","7","6">>,
     closes |-> FALSE, code |-> TRUE]

\* Modelo Cantidad Unidad
ItemHeader ==
    <<"M","o","d","e","l","o"," ","C","a","n","t","i","d","a","d"," ","U",
      "n","i","d","a","d">>

\* Subtotal
ItemFooter ==
    <<"S","u","b","t","o","t","a","l">>


LinePool == {LineScrews, LineNuts, LineNote, LineCode}

ItemCols == <<"item_id", "item_desc", "Quantity">>

\* the quote: the table header, the lines, the subtotal line
QuoteOf(ls) ==
    [text |-> JoinLines(<<ItemHeader>> \o [k \in 1..Len(ls) |-> ls[k].text]
                          \o <<ItemFooter>>),
     corrupt |-> FALSE]

InitItems ==
    /\ pc = "call"
    /\ arg \in SeqsUpTo(LinePool, MaxItemLines)
    /\ ret = <<>>
    /\ NoBatch

CallParseItems ==
    /\ pc = "call"
    /\ \E tieUp \in BOOLEAN : ret' = parse_pdf(NameA, QuoteOf(arg), ItemCols, tieUp)
    /\ pc' = "return"
    /\ UNCHANGED <<files, mapping_cols, idx, rows, errors, arg>>

SpecItems == InitItems /\ [][CallParseItems]_vars

\* how many lines end an item row
RECURSIVE ClosingLines(_)
ClosingLines(ls) ==
    IF ls = <<>> THEN 0
    ELSE (IF ls[1].closes THEN 1 ELSE 0) + ClosingLines(Tail(ls))

\* the rows of the reconstructed block: one for each line that ends a row,
\* what is left over joining the last one; one row when no line ends a row
BlockRows(ls) ==
    IF ls = <<>> THEN 0
    ELSE IF ClosingLines(ls) = 0 THEN 1
    ELSE ClosingLines(ls)

\* the block is one row, and a model code is written on it
OneRowWithCode(ls) == BlockRows(ls) = 1 /\ \E k \in 1..Len(ls) : ls[k].code

\* C6, amended: item_id and item_desc are both empty whenever the
\* reconstructed item block has more than one row; item_id is non-empty
\* only when the block has exactly one row and that row contains a
\* model-code-shaped token; item_desc is non-empty only when the block has
\* exactly one row, with or without such a token.
C6_ItemFieldsOfSingleRow ==
    pc = "return" =>
        /\ BlockRows(arg) > 1 =>
             Get(ret, "item_id") = <<>> /\ Get(ret, "item_desc") = <<>>
        /\ Get(ret, "item_id") # <<>> => OneRowWithCode(arg)
        /\ Get(ret, "item_desc") # <<>> => BlockRows(arg) = 1

\* a block of one row with a model code: both fields are filled
C6_Witness ==
    /\ pc = "return"
    /\ OneRowWithCode(arg)
    /\ Len(arg) = 2
    /\ Get(ret, "item_id") # <<>>
    /\ Get(ret, "item_desc") # <<>>

\* C6 as stated: both fields are empty whenever the block has more than one
\* row, and either is non-empty only when the block has exactly one row and
\* that row contains a model-code-shaped token.
C6_FilledOnlyWithModelCode ==
    pc = "return" =>
        /\ BlockRows(arg) > 1 =>
             Get(ret, "item_id") = <<>> /\ Get(ret, "item_desc") = <<>>
        /\ Get(ret, "item_id") # <<>> \/ Get(ret, "item_desc") # <<>> =>
             OneRowWithCode(arg)

-----------------------------------------------------------------------------
(* extract_first_last_from_vigencia_contacto over quotes with a line       *)
(* "Contacto: <name> <hard stop>", reached after a "Vigencia:" line or     *)
(* through the search of the whole text.                                   *)

MaxNameTokens == 3

NameTokens == { <<"N","o","h","e","m","i">>, <<"C","o","r","t","e","s">>, <<"Q","u","e","v","e","d","o">> }

\* (PAGOS)
StopNote ==
    <<"(","P","A","G","O","S",")">>

\* Vendedor: Juan Perez
StopSeller ==
    <<"V","e","n","d","e","d","o","r",":"," ","J","u","a","n"," ","P","e",
      "r","e","z">>

\* Tel: 5512345678
StopPhone ==
    <<"T","e","l",":"," ","5","5","1","2","3","4","5","6","7","8">>

\* Moneda: MXN
StopCurrency ==
    <<"M","o","n","e","d","a",":"," ","M","X","N">>

\* Contacto:
sContacto ==
    <<"C","o","n","t","a","c","t","o",":">>

\* Vigencia: 30 dias
LineVigencia ==
    <<"V","i","g","e","n","c","i","a",":"," ","3","0"," ","d","i","a","s">>


HardStops == {StopNote, StopSeller, StopPhone, StopCurrency}

\* the line Contacto: <name> <hard stop>
ContactLine(c) == Join(<<sContacto>> \o c.name \o <<c.stop>>, <<" ">>)

ContactText(c) ==
    IF c.vigencia THEN JoinLines(<<LineVigencia, ContactLine(c)>>)
    ELSE ContactLine(c)

InitContact ==
    /\ pc = "call"
    /\ arg \in [vigencia : BOOLEAN,
                name : SeqsUpTo(NameTokens, MaxNameTokens) \ {<<>>},
                stop : HardStops]
    /\ ret = <<>>
    /\ NoBatch

CallExtractContact ==
    /\ pc = "call"
    /\ ret' = extract_first_last_from_vigencia_contacto(
                  NonBlankLines(ContactText(arg)), ContactText(arg))
    /\ pc' = "return"
    /\ UNCHANGED <<files, mapping_cols, idx, rows, errors, arg>>

SpecContact == InitContact /\ [][CallExtractContact]_vars

\* C8: when the Contacto: value is a name followed on the same line by a
\* hard stop (a parenthetical note, or a following label such as seller,
\* phone or currency), FirstName is the first name token and LastName the
\* remaining name tokens, with nothing from the hard stop onward.
C8_NameEndsAtHardStop ==
    pc = "return" =>
        ret = <<arg.name[1], Join(Tail(arg.name), <<" ">>)>>


-----------------------------------------------------------------------------
(* _looks_like_name over phrases put together from tokens.  With a token   *)
(* goes whether it has a letter and whether it is a blacklisted keyword.   *)

MaxPhraseTokens == 7

PhraseTokens ==
    { [text |-> <<"A","n","a">>, letter |-> TRUE, keyword |-> FALSE],
      [text |-> <<"4","3">>, letter |-> FALSE, keyword |-> FALSE],
      [text |-> <<"T","o","t","a","l">>, letter |-> TRUE, keyword |-> TRUE] }

PhraseOf(toks) == Join([k \in 1..Len(toks) |-> toks[k].text], <<" ">>)

InitName ==
    /\ pc = "call"
    /\ arg \in SeqsUpTo(PhraseTokens, MaxPhraseTokens)
    /\ ret = FALSE
    /\ NoBatch

CallLooksLikeName ==
    /\ pc = "call"
    /\ ret' = _looks_like_name(PhraseOf(arg))
    /\ pc' = "return"
    /\ UNCHANGED <<files, mapping_cols, idx, rows, errors, arg>>

SpecName == InitName /\ [][CallLooksLikeName]_vars

\* C9: the filter accepts a phrase only if it has between 2 and 6
\* whitespace-separated tokens, each with at least one letter, and none of
\* the blacklisted keywords; every other phrase is rejected.
C9_AcceptsOnlyTwoToSixLetterTokens ==
    pc = "return" /\ ret =>
        /\ Len(arg) >= 2 /\ Len(arg) <= 6
        /\ \A k \in 1..Len(arg) : arg[k].letter /\ ~arg[k].keyword


-----------------------------------------------------------------------------
(* extract_company over quotes put together from lines.                    *)

MaxCompanyLines == 3

\* Cliente: ACME SA
LineClient ==
    <<"C","l","i","e","n","t","e",":"," ","A","C","M","E"," ","S","A">>

\* Cliente: Contacto: Ana
LineClientContact ==
    <<"C","l","i","e","n","t","e",":"," ","C","o","n","t","a","c","t","o",
      ":"," ","A","n","a">>

\* Cliente: www.acme.com
LineClientUrl ==
    <<"C","l","i","e","n","t","e",":"," ","w","w","w",".","a","c","m","e",
      ".","c","o","m">>

\* Cliente:
LineClientBare ==
    <<"C","l","i","e","n","t","e",":">>

\* Vendedor: Luis
LineSeller ==
    <<"V","e","n","d","e","d","o","r",":"," ","L","u","i","s">>

\* ACME
LineAcme ==
    <<"A","C","M","E">>


CompanyLinePool ==
    {LineClient, LineClientContact, LineClientUrl, LineClientBare, LineSeller,
     LineAcme}

InitCompany ==
    /\ pc = "call"
    /\ arg \in SeqsUpTo(CompanyLinePool, MaxCompanyLines)
    /\ ret = <<>>
    /\ NoBatch

CallExtractCompany ==
    /\ pc = "call"
    /\ ret' = extract_company(NonBlankLines(JoinLines(arg)), JoinLines(arg))
    /\ pc' = "return"
    /\ UNCHANGED <<files, mapping_cols, idx, rows, errors, arg>>

SpecCompany == InitCompany /\ [][CallExtractCompany]_vars

\* C10: the Company value returned, by the line scan or by the full-text
\* fallback, is never a candidate that matches a noise label (contact,
\* seller, phone, currency, date, signature) or URL-like content.
C10_CompanyIsNoNoise ==
    pc = "return" => ~IsNoiseLabel(ret) /\ ~LooksLikeUrl(ret)

-----------------------------------------------------------------------------
(* split_into_item_rows over item regions put together from lines.  With   *)
(* the text of a line goes what is written on it: whether it carries at    *)
(* least two amounts, and whether it is blank.  The region is stripped, as *)
(* parse_pdf strips the block it hands over (line 413).                    *)

MaxRegionLines == 4

\* perno 1.00 2.00
RegionPriced ==
    [text |->
        <<"p","e","r","n","o"," ","1",".","0","0"," ","2",".","0","0">>,
     closes |-> TRUE, blank |-> FALSE]

\* kit 1,00 2,00 3.00
RegionThree ==
    [text |->
        <<"k","i","t"," ","1",",","0","0"," ","2",",","0","0"," ","3",".",
          "0","0">>,
     closes |-> TRUE, blank |-> FALSE]

\* tubo 1,000.00
RegionThousand ==
    [text |->
        <<"t","u","b","o"," ","1",",","0","0","0",".","0","0">>,
     closes |-> FALSE, blank |-> FALSE]

\* largo
RegionNote ==
    [text |->
        <<"l","a","r","g","o">>,
     closes |-> FALSE, blank |-> FALSE]

\* a line of two spaces
RegionBlank ==
    [text |->
        <<" "," ">>,
     closes |-> FALSE, blank |-> TRUE]

RegionPool == {RegionPriced, RegionThree, RegionThousand, RegionNote, RegionBlank}

InitRows ==
    /\ pc = "call"
    /\ arg \in SeqsUpTo(RegionPool, MaxRegionLines)
    /\ ret = <<>>
    /\ NoBatch

CallSplitRows ==
    /\ pc = "call"
    /\ ret' = split_into_item_rows(Strip(TextOf(arg)))
    /\ pc' = "return"
    /\ UNCHANGED <<files, mapping_cols, idx, rows, errors, arg>>

SpecRows == InitRows /\ [][CallSplitRows]_vars

\* the non-blank lines written in the region, in order
WrittenRegion(ls) == SelectSeq(ls, LAMBDA l : ~l.blank)

\* the positions, among the non-blank lines, of those with two amounts
Closers(ws) == {k \in 1..Len(ws) : ws[k].closes}

\* the k-th smallest member of the set of numbers S
KthOf(S, k) == CHOOSE x \in S : Cardinality({y \in S : y <= x}) = k

\* how many rows the non-blank lines ws make
RowCount(ws) ==
    IF Closers(ws) # {} THEN Cardinality(Closers(ws))
    ELSE IF ws # <<>> THEN 1 ELSE 0

\* the first and the last line of row k
RowFirst(ws, k) == IF k = 1 THEN 1 ELSE KthOf(Closers(ws), k - 1) + 1
RowLast(ws, k)  == IF k = RowCount(ws) THEN Len(ws) ELSE KthOf(Closers(ws), k)

\* the texts of lines a..b of ws joined by single spaces
SpacedTexts(ws, a, b) == Join([j \in 1..(b - a + 1) |-> ws[a + j - 1].text], <<" ">>)

-----------------------------------------------------------------------------
(* infer_quantity_from_row over rows put together from tokens separated by *)
(* single spaces.  With the text of a token goes what is written: the      *)
(* plain integer or decimal it is (None when it is none), whether it is a  *)
(* unit of measure, and whether it is a monetary token.  The digits of a   *)
(* stray code count as a plain number, which only the range sets aside.    *)

MaxRowTokens == 4

\* perno
TokWord ==
    [text |-> <<"p","e","r","n","o">>,
     num |-> None, unit |-> FALSE, money |-> FALSE]

\* AB-1234, a code whose digits read as 1234
TokCode ==
    [text |-> <<"A","B","-","1","2","3","4">>,
     num |-> <<1234, 0>>, unit |-> FALSE, money |-> FALSE]

\* 2
TokTwo ==
    [text |-> <<"2">>,
     num |-> <<2, 0>>, unit |-> FALSE, money |-> FALSE]

\* 0.125
TokEighth ==
    [text |-> <<"0",".","1","2","5">>,
     num |-> <<125, 3>>, unit |-> FALSE, money |-> FALSE]

\* 100000, the first number out of range
TokBig ==
    [text |-> <<"1","0","0","0","0","0">>,
     num |-> <<100000, 0>>, unit |-> FALSE, money |-> FALSE]

\* pzas
TokUnit ==
    [text |-> <<"p","z","a","s">>,
     num |-> None, unit |-> TRUE, money |-> FALSE]

\* 1.00, an amount that is also written as a plain decimal
TokPrice ==
    [text |-> <<"1",".","0","0">>,
     num |-> <<100, 2>>, unit |-> FALSE, money |-> TRUE]

\* 3,000.00, an amount with a thousands group
TokAmount ==
    [text |-> <<"3",",","0","0","0",".","0","0">>,
     num |-> None, unit |-> FALSE, money |-> TRUE]

TokenPool ==
    {TokWord, TokCode, TokTwo, TokEighth, TokBig, TokUnit, TokPrice, TokAmount}

\* the row text: the tokens separated by single spaces
RowTextOf(ts) == Join([k \in 1..Len(ts) |-> ts[k].text], <<" ">>)

InitRowQuantity ==
    /\ pc = "call"
    /\ arg \in SeqsUpTo(TokenPool, MaxRowTokens)
    /\ ret = None
    /\ NoBatch

CallInferQuantity ==
    /\ pc = "call"
    /\ ret' = infer_quantity_from_row(RowTextOf(arg))
    /\ pc' = "return"
    /\ UNCHANGED <<files, mapping_cols, idx, rows, errors, arg>>

SpecRowQuantity == InitRowQuantity /\ [][CallInferQuantity]_vars

\* the positions of the numbers that a unit of measure follows at once
BeforeUnit(ts) ==
    {k \in 1..Len(ts) - 1 : ts[k].num # None /\ ts[k+1].unit}

\* the positions of the monetary tokens
MoneyAt(ts) == {k \in 1..Len(ts) : ts[k].money}

\* the positions of the plain numbers in 0 <= q < 100000 that stand before
\* the first monetary token (none when the row has no monetary token)
BeforeMoney(ts) ==
    {k \in 1..Len(ts) :
        /\ ts[k].num # None
        /\ ts[k].num[1] >= 0
        /\ ts[k].num[1] < QTY_LIMIT * Pow10(ts[k].num[2])
        /\ \E m \in MoneyAt(ts) : k < m
        /\ \A m \in MoneyAt(ts) : k < m}

\* the quantity q is the number v
SameNumber(q, v) == q # None /\ q[1] * Pow10(v[2]) = v[1] * Pow10(q[2])

\* every unit of measure of the row follows a plain number or a token that
\* is no number: the rows in which "the number before the unit" is a plain
\* integer or decimal
UnitsAfterPlain(ts) ==
    \A k \in 1..Len(ts) - 1 : ts[k+1].unit => ~(ts[k].money /\ ts[k].num = None)

=============================================================================
